---------------------------- MODULE Spec2Model ----------------------------
(***************************************************************************)
(* A model of the ludtwig template parser (crates/ludtwig-parser): the     *)
(* root production, the HTML grammar and the Twig literal grammar, as      *)
(* recursive-descent functions over a token cursor that append to an       *)
(* event log, together with the tree builder that replays the log.         *)
(*                                                                         *)
(* A token is a record [k |-> kind, s |-> text]; the text is a sequence    *)
(* of one-character strings so that the name regexes and the "same tag     *)
(* name" comparison are computed character by character.                   *)
(***************************************************************************)
EXTENDS Integers, Sequences, FiniteSets, TLC

VARIABLES
    tokens,     \* the lexed input: Seq of [k, s]
    pos,        \* Parser cursor: raw index of the next unconsumed token
    events,     \* Parser event log
    errors,     \* Parser diagnostics
    stalls,     \* history: parse_many loops left because an iteration made no progress
    diverged,   \* history: a parse_many loop ran out of the iteration budget
    phase,      \* "root" (inside root's loop), "parsed" (root returned), "built" (tree built)
    iters,      \* history: iterations of root's loop so far
    tree,       \* the tree built from the event log (a bracket sequence), <<>> before
    given,      \* what the function under study was called with (<<>> for root)
    file_context,   \* run_rules: the rules of the file and the format configuration
    preorder,       \* run_rules: the next event of the walk over the tree
    ignored_rules,  \* run_rules: the rule names that are ignored at present
    rule_context,   \* run_rules: ctx, the RuleContext (results and traversal context)
    calls,          \* history: the calls run_rules has made to the rules
    combinator,     \* dynamic_context: the closure it returned, [context_creator, f]
    applied         \* history: the calls of the closure, [i, out, created] each

\* the state of run_rules (crates/ludtwig/src/check.rs)
checkvars == <<file_context, preorder, ignored_rules, rule_context, calls>>

\* the state of a closure of dynamic_context (libs/twig/src/parser/general.rs)
contextvars == <<combinator, applied>>

vars == <<tokens, pos, events, errors, stalls, diverged, phase, iters, tree, given,
          checkvars, contextvars>>

\* run_rules has not been called
NotChecking ==
    /\ file_context = <<>>
    /\ preorder = <<>>
    /\ ignored_rules = <<>>
    /\ rule_context = <<>>
    /\ calls = <<>>

\* dynamic_context has not been called
NotCombining ==
    /\ combinator = <<>>
    /\ applied = <<>>

\* `let x = v;` and what follows it: F applied to the value of v.
\* Where v or what follows calls back into the grammar, the same binding is
\* written [x \in Any |-> what follows][v]: the value of v is taken once and
\* the evaluation nests less deeply than With does.
With(v, F(_)) == CHOOSE r \in {F(x) : x \in {v}} : TRUE

-----------------------------------------------------------------------------
(* Token texts *)

Lower == {"a","b","c","d","e","f","g","h","i","j","k","l","m",
          "n","o","p","q","r","s","t","u","v","w","x","y","z"}
Upper == {"A","B","C","D","E","F","G","H","I","J","K","L","M",
          "N","O","P","Q","R","S","T","U","V","W","X","Y","Z"}
Digit == {"0","1","2","3","4","5","6","7","8","9"}
Alpha == Lower \cup Upper

Tok(k, s) == [k |-> k, s |-> s]

TRIVIA == {"ws", "lb"}

\* concatenation of the texts of a sequence of records with a field s
RECURSIVE ConcatText(_)
ConcatText(seq) ==
    IF seq = <<>> THEN <<>> ELSE Head(seq).s \o ConcatText(Tail(seq))

-----------------------------------------------------------------------------
(* Regular expressions and tables of the grammar *)

\* ^[a-zA-Z][a-zA-Z0-9\-]*$
HTML_TAG_NAME_REGEX(s) ==
    /\ Len(s) >= 1
    /\ s[1] \in Alpha
    /\ \A i \in 2..Len(s) : s[i] \in Alpha \cup Digit \cup {"-"}

\* ^([a-zA-Z]|([:@\#_\$][a-zA-Z]))[a-zA-Z0-9_\-]*$
HTML_ATTRIBUTE_NAME_REGEX(s) ==
    \/ /\ Len(s) >= 1
       /\ s[1] \in Alpha
       /\ \A i \in 2..Len(s) : s[i] \in Alpha \cup Digit \cup {"_", "-"}
    \/ /\ Len(s) >= 2
       /\ s[1] \in {":", "@", "#", "_", "$"}
       /\ s[2] \in Alpha
       /\ \A i \in 3..Len(s) : s[i] \in Alpha \cup Digit \cup {"_", "-"}

\* ^[a-zA-Z_\x7f-\xff][a-zA-Z0-9_\x7f-\xff]*$ (on the ASCII texts of the model)
TWIG_NAME_REGEX(s) ==
    /\ Len(s) >= 1
    /\ s[1] \in Alpha \cup {"_"}
    /\ \A i \in 2..Len(s) : s[i] \in Alpha \cup Digit \cup {"_"}

HTML_VOID_ELEMENTS ==
    { <<"a","r","e","a">>, <<"b","a","s","e">>, <<"b","r">>, <<"c","o","l">>,
      <<"c","o","m","m","a","n","d">>, <<"e","m","b","e","d">>, <<"h","r">>,
      <<"i","m","g">>, <<"i","n","p","u","t">>, <<"k","e","y","g","e","n">>,
      <<"l","i","n","k">>, <<"m","e","t","a">>, <<"p","a","r","a","m">>,
      <<"s","o","u","r","c","e">>, <<"t","r","a","c","k">>, <<"w","b","r">> }

\* Tokens which can lead to parsing of another element.  The closing-tag
\* opener "</" is not a member: parse_html_text and the recovery sets of
\* parse_html_element name it next to the set, and recover(&[]) runs over it.
\* (a variant for comparison) the set with `</` in it
GENERAL_RECOVERY_SET_with_closing_tag ==
    {"{%", "{{", "{#", "<", "</", "<!--", "<!"}

GENERAL_RECOVERY_SET == {"{%", "{{", "{#", "<", "<!--", "<!"}

TWIG_TERMINATION_KEYWORDS == {"endblock", "endif", "elseif", "else", "endfor"}

-----------------------------------------------------------------------------
(* Parser: cursor *)

\* The parser state threaded through the grammar functions.  ret is the
\* return value of the last grammar function: 0 for None, otherwise the
\* event index of the completed marker.  met is the flag
\* matching_end_tag_encountered captured by the body loop of parse_html_element,
\* node the completed marker captured by the filter and postfix loops.
Parser(p, ev, er, st, dv) ==
    [pos |-> p, ev |-> ev, err |-> er, stalls |-> st, div |-> dv,
     ret |-> 0, met |-> FALSE, node |-> 0]

NTok == Len(tokens)

\* raw index of the first non-trivia token at or after i, NTok + 1 if none
RECURSIVE SkipTrivia(_)
SkipTrivia(i) ==
    IF i > NTok THEN NTok + 1
    ELSE IF tokens[i].k \in TRIVIA THEN SkipTrivia(i + 1)
    ELSE i

peek(p) == SkipTrivia(p.pos)

\* raw index of the n-th non-trivia token after the current one
RECURSIVE PeekNthFrom(_, _)
PeekNthFrom(i, n) ==
    IF n = 0 \/ i > NTok THEN SkipTrivia(i)
    ELSE PeekNthFrom(SkipTrivia(i) + 1, n - 1)

peek_nth(p, n) == PeekNthFrom(p.pos, n)

at_end(p) == peek(p) > NTok

at(p, kind) == ~at_end(p) /\ tokens[peek(p)].k = kind

at_set(p, set) == ~at_end(p) /\ tokens[peek(p)].k \in set

\* peek_token().map_or("", |t| t.text)
peek_text(p) == IF at_end(p) THEN <<>> ELSE tokens[peek(p)].s

\* at_following(&[k1, k2]): the next two non-trivia tokens have these kinds
at_following2(p, k1, k2) ==
    /\ at(p, k1)
    /\ peek_nth(p, 1) <= NTok
    /\ tokens[peek_nth(p, 1)].k = k2

\* at_following_content(&[(k1, None), (k2, Some(text))])
at_following_content2(p, k1, k2, text) ==
    /\ at_following2(p, k1, k2)
    /\ tokens[peek_nth(p, 1)].s = text

-----------------------------------------------------------------------------
(* Parser: events *)

EvTok(k, s, i) == [t |-> "tok", k |-> k, s |-> s, i |-> i, fp |-> 0]
EvPlaceholder  == [t |-> "ph", k |-> "", s |-> <<>>, i |-> 0, fp |-> 0]
EvStart(k, fp) == [t |-> "start", k |-> k, s |-> <<>>, i |-> 0, fp |-> fp]
EvFinish       == [t |-> "finish", k |-> "", s |-> <<>>, i |-> 0, fp |-> 0]

\* token events of the raw tokens i..j, each as itself
RECURSIVE TokEvents(_, _)
TokEvents(i, j) ==
    IF i > j THEN <<>>
    ELSE <<EvTok(tokens[i].k, tokens[i].s, i)>> \o TokEvents(i + 1, j)

\* start(): a placeholder event; the marker is its index (left in ret)
start(p) ==
    [p EXCEPT !.ev = Append(p.ev, EvPlaceholder), !.ret = Len(p.ev) + 1]

\* explicitly_consume_trivia(): pending trivia becomes children of the open node
explicitly_consume_trivia(p) ==
    [p EXCEPT !.ev = p.ev \o TokEvents(p.pos, peek(p) - 1), !.pos = peek(p)]

\* complete(marker, kind): the placeholder becomes Start(kind), a Finish is
\* appended; ret is the completed marker.  Completing ROOT first takes the
\* trivia left at the end of the input, so that the tree covers the source.
complete(p, m, kind) ==
    With(IF kind = "ROOT" THEN explicitly_consume_trivia(p) ELSE p, LAMBDA q :
    [q EXCEPT !.ev = Append([q.ev EXCEPT ![m] = EvStart(kind, q.ev[m].fp)], EvFinish),
              !.ret = m])

\* precede(completed): a new placeholder that becomes the parent of completed
precede(p, cm) ==
    [p EXCEPT !.ev = Append([p.ev EXCEPT ![cm].fp = Len(p.ev) + 1], EvPlaceholder),
              !.ret = Len(p.ev) + 1]

\* bump_as(kind): the pending trivia and the current token, re-labelled
bump_as(p, kind) ==
    IF at_end(p) THEN p
    ELSE With(peek(p), LAMBDA i :
         [p EXCEPT !.ev = p.ev \o TokEvents(p.pos, i - 1)
                               \o <<EvTok(kind, tokens[i].s, i)>>,
                   !.pos = i + 1])

\* bump(): the current token as itself
bump(p) == IF at_end(p) THEN p ELSE bump_as(p, tokens[peek(p)].k)

\* start() and bump(): a node is started and its first token taken; ret is
\* the marker
start_and_bump(p) ==
    With(start(p), LAMBDA p1 :
    bump(p1))

\* bump_next_n_as(2, kind): the next two non-trivia tokens merged into one
bump_next_2_as(p, kind) ==
    With(peek(p), LAMBDA i :
    With(peek_nth(p, 1), LAMBDA j :
    IF j > NTok THEN bump_as(p, kind)
    ELSE [p EXCEPT !.ev = p.ev \o TokEvents(p.pos, i - 1)
                               \o <<EvTok(kind, ConcatText(SubSeq(tokens, i, j)), i)>>,
                   !.pos = j + 1]))

\* add_error(builder): a diagnostic at the current token (NTok + 1: end of file)
Diag(atIdx, expected, name) == [at |-> atIdx, exp |-> expected, name |-> name]

add_error(p, expected, name) ==
    [p EXCEPT !.err = Append(p.err, Diag(peek(p), expected, name))]

add_error_at(p, expected, atIdx) ==
    [p EXCEPT !.err = Append(p.err, Diag(atIdx, expected, <<>>))]

-----------------------------------------------------------------------------
(* Parser: recovery *)

at_recovery(p, recovery_set) ==
    at_end(p) \/ at_set(p, GENERAL_RECOVERY_SET) \/ at_set(p, recovery_set)

RECURSIVE recover_loop(_, _)
recover_loop(p, recovery_set) ==
    With(bump(p), LAMBDA q :
    IF at_recovery(q, recovery_set) THEN q ELSE recover_loop(q, recovery_set))

\* recover(recovery_set): nothing at a recovery token or at the end of the
\* input; otherwise one ERROR node with the tokens before the next one
recover(p, recovery_set) ==
    IF at_recovery(p, recovery_set) THEN p
    ELSE With(start(p), LAMBDA p1 :
         With(recover_loop(p1, recovery_set), LAMBDA p2 :
         complete(p2, p1.ret, "ERROR")))

\* expect(kind, recovery_set)
expect(p, kind, recovery_set) ==
    IF at(p, kind) THEN bump(p)
    ELSE With(add_error(p, kind, <<>>), LAMBDA e :
         recover(e, recovery_set))

-----------------------------------------------------------------------------
(* Grammar *)

\* what a parse_many call site captures: the tag name of the element whose
\* body is parsed, the contextual child parser (a ParseFunction), the quote
\* kind of a Twig string and whether it allows interpolation
Ctx(name, child) == [name |-> name, child |-> child, quote |-> "", interp |-> FALSE]
StringCtx(quote_kind, interpolation_allowed) ==
    [name |-> <<>>, child |-> "", quote |-> quote_kind, interp |-> interpolation_allowed]
NoCtx == Ctx(<<>>, "")

\* `{%` followed by a keyword that ends a block
at_twig_termination_tag(p) ==
    \E k \in TWIG_TERMINATION_KEYWORDS : at_following2(p, "{%", k)

Stall(site, idx) == [site |-> site, at |-> idx]

\* the outcome of an iteration of a loop: the loop is left, or goes on
Leave(p) == [p |-> p, again |-> FALSE]
Again(p) == [p |-> p, again |-> TRUE]

\* one token put into an ERROR node
token_into_error(p) ==
    With(start(p), LAMBDA p1 :
    With(bump(p1), LAMBDA p2 :
    complete(p2, p1.ret, "ERROR")))

RECURSIVE parse_many_loop(_, _, _, _)
RECURSIVE parse_many_step(_, _, _)
RECURSIVE until(_, _, _)
RECURSIVE one(_, _, _)
RECURSIVE html_one(_, _, _)
RECURSIVE twig_one(_, _, _)
RECURSIVE literal_one(_, _, _)
RECURSIVE call(_, _)
RECURSIVE named(_, _)
RECURSIVE parse_any_element(_)
RECURSIVE parse_any_html(_)
RECURSIVE parse_html_element(_)
RECURSIVE parse_html_attribute_or_twig(_)
RECURSIVE parse_html_attribute_value_string(_)
RECURSIVE child_parser(_, _)
RECURSIVE parse_any_twig(_, _)
RECURSIVE parse_twig_block_statement(_, _)
RECURSIVE parse_twig_var_statement(_)
RECURSIVE parse_twig_expression(_)
RECURSIVE parse_twig_literal(_)
RECURSIVE parse_twig_string(_, _)
RECURSIVE string_part(_, _)
RECURSIVE parse_twig_array(_)
RECURSIVE parse_twig_hash(_)
RECURSIVE parse_twig_hash_pair(_)
RECURSIVE parse_twig_name_postfix(_)
RECURSIVE parse_twig_filter(_, _)
RECURSIVE parse_twig_indexer(_, _)
RECURSIVE parse_twig_accessor(_, _)
RECURSIVE parse_twig_function(_, _)
RECURSIVE parse_twig_function_argument(_)
RECURSIVE separated(_)
RECURSIVE postfix(_)

\* (a variant for comparison) a loop that goes on when the child parser
\* returned without moving the cursor
parse_many_loop_unguarded(p, site, ctx, budget) ==
    CASE at_end(p) -> [p EXCEPT !.met = FALSE]
      [] ~at_end(p) /\ until(site, ctx, p).hold -> [p EXCEPT !.met = until(site, ctx, p).met]
      [] ~at_end(p) /\ ~until(site, ctx, p).hold /\ budget = 0 ->
            [p EXCEPT !.div = TRUE, !.met = FALSE]
      [] OTHER ->
            [r \in Any |->
                parse_many_loop(r, site, ctx, budget - 1)
            ][one(site, ctx, p)]

\* (a variant for comparison) an iteration that, when the child parser
\* returned without moving the cursor, puts one token into an ERROR node and
\* lets the loop go on
parse_many_step_consuming(p, site, ctx) ==
    CASE at_end(p) -> Leave([p EXCEPT !.met = FALSE])
      [] ~at_end(p) /\ until(site, ctx, p).hold ->
            Leave([p EXCEPT !.met = until(site, ctx, p).met])
      [] OTHER ->
            [q \in Any |->
                IF peek(q) = peek(p) THEN Again(token_into_error(q)) ELSE Again(q)
            ][one(site, ctx, p)]

\* parse_many(parser, early_exit_closure, child_parser), one iteration: the
\* loop ends at the end of the input, when the early exit closure holds, and
\* when the child parser returned without moving the cursor.  The budget of
\* the loop only bounds the evaluation: it is Len(tokens) + 1, which no loop
\* that moves the cursor in every iteration can use up.
parse_many_step(p, site, ctx) ==
    CASE at_end(p) -> Leave([p EXCEPT !.met = FALSE])
      [] ~at_end(p) /\ until(site, ctx, p).hold ->
            Leave([p EXCEPT !.met = until(site, ctx, p).met])
      [] OTHER ->
            [q \in Any |->
                IF peek(q) = peek(p)
                THEN Leave([q EXCEPT !.stalls = q.stalls \cup {Stall(site, peek(q))},
                                     !.met = FALSE])
                ELSE Again(q)
            ][one(site, ctx, p)]

\* the loop of parse_many
parse_many_loop(p, site, ctx, budget) ==
    [s \in Any |->
        CASE ~s.again -> s.p
          [] s.again /\ budget = 0 -> [s.p EXCEPT !.div = TRUE, !.met = FALSE]
          [] OTHER -> parse_many_loop(s.p, site, ctx, budget - 1)
    ][parse_many_step(p, site, ctx)]

parse_many(p, site, ctx) == parse_many_loop(p, site, ctx, NTok + 1)

Hold(h, m) == [hold |-> h, met |-> m]

\* (a variant for comparison) the closure stops at the matching closing tag
\* but does not set matching_end_tag_encountered
body_until_flag_unset(p, tag_name) ==
    IF at_following_content2(p, "</", "word", tag_name)
    THEN Hold(TRUE, FALSE)
    ELSE Hold(at_twig_termination_tag(p), FALSE)

\* (a variant for comparison) the closure does not look for Twig termination tags
body_until_closing_tag_only(p, tag_name) ==
    IF at_following_content2(p, "</", "word", tag_name)
    THEN Hold(TRUE, TRUE)
    ELSE Hold(FALSE, FALSE)

\* the early exit closure of the body loop of parse_html_element: the matching
\* closing tag (which sets matching_end_tag_encountered) or a Twig termination tag
body_until(p, tag_name) ==
    IF at_following_content2(p, "</", "word", tag_name)
    THEN Hold(TRUE, TRUE)
    ELSE Hold(at_twig_termination_tag(p), FALSE)

\* the early exit closures of the parse_many call sites of html.rs
html_until(site, ctx, p) ==
    CASE site = "text" ->
            Hold(at_set(p, GENERAL_RECOVERY_SET) \/ at_set(p, {"</"}), FALSE)
      [] site = "comment" -> Hold(at(p, "-->"), FALSE)
      [] site = "attrs" -> Hold(at(p, ">") \/ at(p, "/>"), FALSE)
      [] site = "body" -> body_until(p, ctx.name)
      [] site = "dq" -> Hold(at(p, "\"") \/ at_twig_termination_tag(p), FALSE)
      [] site = "sq" -> Hold(at(p, "'") \/ at_twig_termination_tag(p), FALSE)

\* the early exit closures of the Twig statements
twig_until(site, ctx, p) ==
    CASE site = "twig_body" -> Hold(at_twig_termination_tag(p), FALSE)
      [] site = "twig_comment" -> Hold(at(p, "#}"), FALSE)

\* the early exit closures of the parse_many call sites of literal.rs
literal_until(site, ctx, p) ==
    CASE site = "string" -> Hold(at(p, ctx.quote), FALSE)
      [] site = "array" -> Hold(at(p, "]"), FALSE)
      [] site = "hash" -> Hold(at(p, "}"), FALSE)
      [] site = "arguments" -> Hold(at(p, ")"), FALSE)
      [] site \in {"filters", "postfix"} -> Hold(FALSE, FALSE)

HTML_SITES == {"text", "comment", "attrs", "body", "dq", "sq"}
TWIG_SITES == {"twig_body", "twig_comment"}
LITERAL_SITES == {"string", "array", "hash", "arguments", "filters", "postfix"}

until(site, ctx, p) ==
    CASE site \in HTML_SITES -> html_until(site, ctx, p)
      [] site \in TWIG_SITES -> twig_until(site, ctx, p)
      [] OTHER -> literal_until(site, ctx, p)

\* the child parsers of the parse_many call sites of html.rs
html_one(site, ctx, p) ==
    CASE site \in {"text", "comment"} -> bump(p)
      [] site = "attrs" -> parse_html_attribute_or_twig(p)
      [] site = "body" -> parse_any_element(p)
      [] site = "dq" -> child_parser(p, "inner_double_quote_parser")
      [] site = "sq" -> child_parser(p, "inner_single_quote_parser")

\* the child parsers of the Twig statements
twig_one(site, ctx, p) ==
    CASE site = "twig_body" -> call(ctx.child, p)
      [] site = "twig_comment" -> bump(p)

\* the child parsers of the parse_many call sites of literal.rs
literal_one(site, ctx, p) ==
    CASE site = "string" -> string_part(p, ctx)
      [] site = "array" -> [r \in Any |->
                               separated(r)
                           ][parse_twig_expression(p)]
      [] site = "hash" -> [r \in Any |->
                              separated(r)
                          ][parse_twig_hash_pair(p)]
      [] site = "arguments" -> [r \in Any |->
                                   separated(r)
                               ][parse_twig_function_argument(p)]
      [] site = "filters" ->
            IF at(p, "|")
            THEN [q \in Any |->
                     [q EXCEPT !.node = q.ret]
                 ][parse_twig_filter(p, p.node)]
            ELSE p
      [] site = "postfix" -> postfix(p)

\* the functions that are handed on as ParseFunction values, by name
named(f, p) ==
    CASE f = "parse_any_element" -> parse_any_element(p)
      [] f = "parse_html_attribute_or_twig" -> parse_html_attribute_or_twig(p)
      [] f = "inner_double_quote_parser" ->
            [parse_many(p, "dq", NoCtx) EXCEPT !.ret = 0]
      [] f = "inner_single_quote_parser" ->
            [parse_many(p, "sq", NoCtx) EXCEPT !.ret = 0]
      [] f = "parse_twig_expression" -> parse_twig_expression(p)
      [] OTHER -> [p EXCEPT !.ret = 0]

\* a function value applied to the parser: the child parser closure of a
\* parse_many call site, or a function of the grammar given by its name
one(site, ctx, p) ==
    CASE site \in HTML_SITES -> html_one(site, ctx, p)
      [] site \in TWIG_SITES -> twig_one(site, ctx, p)
      [] site \in LITERAL_SITES -> literal_one(site, ctx, p)
      [] OTHER -> named(site, p)

\* a ParseFunction value applied to the parser; the functions that take part
\* in the recursion of the grammar are called through it too
call(f, p) == one(f, NoCtx, p)

parse_html_doctype(p) ==
    With(start(p), LAMBDA p1 :
    With(bump(p1), LAMBDA p2 :
    With(expect(p2, "DOCTYPE", {"word", ">"}), LAMBDA p3 :
    With(expect(p3, "word", {">"}), LAMBDA p4 :
    With(expect(p4, ">", {}), LAMBDA p5 :
    complete(p5, p1.ret, "HTML_DOCTYPE"))))))

\* (a variant for comparison) a text parser that leaves its marker open
parse_html_text_open(p) ==
    IF at_end(p) \/ at_set(p, GENERAL_RECOVERY_SET) \/ at_set(p, {"</"})
    THEN [p EXCEPT !.ret = 0]
    ELSE [p1 \in Any |->
         [p2 \in Any |->
             [p2 EXCEPT !.ret = p1.ret]
         ][parse_many(p1, "text", NoCtx)]
         ][start(p)]

\* (a variant for comparison) a text parser that does not look where it starts
parse_html_text_always(p) ==
    [p1 \in Any |->
    [p2 \in Any |->
        complete(p2, p1.ret, "HTML_TEXT")
    ][parse_many(p1, "text", NoCtx)]
    ][start(p)]

parse_html_text(p) ==
    IF at_end(p) \/ at_set(p, GENERAL_RECOVERY_SET) \/ at_set(p, {"</"})
    THEN [p EXCEPT !.ret = 0]
    ELSE [p1 \in Any |->
         [p2 \in Any |->
             complete(p2, p1.ret, "HTML_TEXT")
         ][parse_many(p1, "text", NoCtx)]
         ][start(p)]

parse_plain_html_comment(p, outer) ==
    [p1 \in Any |->
        With(expect(p1, "-->", {}), LAMBDA p2 :
        complete(p2, outer, "HTML_COMMENT"))
    ][parse_many(p, "comment", NoCtx)]

parse_html_comment(p) ==
    [p2 \in Any |->
        parse_plain_html_comment(p2, p2.ret)
    ][start_and_bump(p)]

parse_any_html(p) ==
    CASE at(p, "<") -> parse_html_element(p)
      [] at(p, "<!--") -> parse_html_comment(p)
      [] at(p, "<!") -> parse_html_doctype(p)
      [] OTHER -> parse_html_text(p)

parse_any_element(p) ==
    [r \in Any |->
        IF r.ret # 0 THEN r ELSE parse_any_html(r)
    ][parse_any_twig(p, "parse_any_element")]

\* (a variant for comparison) the missing ending tag is reported, nothing is
\* recovered
missing_end_tag_reported_only(p, tag_name) == add_error(p, "ending tag", tag_name)

\* no matching end tag found: "</{tag_name}> ending tag" is reported and
\* recover(&[]) is called
missing_end_tag(p, tag_name) ==
    With(add_error(p, "ending tag", tag_name), LAMBDA e :
    recover(e, {}))

\* (a variant for comparison) only `/>` makes an element self-closing
self_closing_by_delimiter(closed, tag_name) == closed

\* is_self_closing: the starting tag ended with `/>`, or the element is void
self_closing(closed, tag_name) == closed \/ tag_name \in HTML_VOID_ELEMENTS

\* the locals of parse_html_element that its later parts use
Element(p, m, starting_tag_m, tag_name, attributes_m, is_self_closing) ==
    [p |-> p, m |-> m, starting_tag_m |-> starting_tag_m, tag_name |-> tag_name,
     attributes_m |-> attributes_m, is_self_closing |-> is_self_closing]

\* parse_html_element, from its beginning to the start of the attribute list
element_name(p) ==
    With(start(p), LAMBDA p1 :
    With(p1.ret, LAMBDA m :
    With(start(p1), LAMBDA p2 :
    With(p2.ret, LAMBDA starting_tag_m :
    With(bump(p2), LAMBDA p3 :
    With(peek_text(p3), LAMBDA tag_name :
    With(IF HTML_TAG_NAME_REGEX(tag_name) THEN bump_as(p3, "word")
              ELSE With(add_error(p3, "HTML Tag Name", <<>>), LAMBDA e :
                   recover(e, {">", "/>", "</", "word"})), LAMBDA p4 :
    With(start(p4), LAMBDA p5 :
    Element(p5, m, starting_tag_m, tag_name, p5.ret, FALSE)))))))))

\* ... from the end of the attribute list to the end of the starting tag, and
\* the start of the body if there is one
element_starting_tag_end(p6, el) ==
    With(complete(p6, el.attributes_m, "HTML_ATTRIBUTE_LIST"), LAMBDA p7 :
    With(at(p7, "/>"), LAMBDA closed :
    With(IF closed THEN bump(p7) ELSE expect(p7, ">", {"</", "word", ">"}), LAMBDA p8 :
    With(self_closing(closed, el.tag_name), LAMBDA is_self_closing :
    With(complete(p8, el.starting_tag_m, "HTML_STARTING_TAG"), LAMBDA p9 :
    [el EXCEPT !.p = IF is_self_closing THEN p9 ELSE start(p9),
               !.is_self_closing = is_self_closing])))))

\* ... its starting tag
element_starting_tag(p) ==
    [el \in Any |->
    [p6 \in Any |->
        element_starting_tag_end(p6, el)
    ][parse_many(el.p, "attrs", NoCtx)]
    ][element_name(p)]

\* ... from the end of the body to the end of the element
element_end(p11, body_m, el) ==
    With(p11.met, LAMBDA matching_end_tag_encountered :
    With(complete(p11, body_m, "BODY"), LAMBDA p12 :
    With(start(p12), LAMBDA p13 :
    With(p13.ret, LAMBDA end_tag_m :
    With(IF matching_end_tag_encountered
               THEN With(expect(p13, "</", {"word", ">"}), LAMBDA e1 :
                    With(expect(e1, "word", {">"}), LAMBDA e2 :
                    expect(e2, ">", {})))
               ELSE missing_end_tag(p13, el.tag_name), LAMBDA p14 :
    With(complete(p14, end_tag_m, "HTML_ENDING_TAG"), LAMBDA p15 :
    complete(p15, el.m, "HTML_TAG")))))))

parse_html_element(p) ==
    [st \in Any |->
        IF st.is_self_closing THEN complete(st.p, st.m, "HTML_TAG")
        ELSE [p11 \in Any |->
                 element_end(p11, st.p.ret, st)
             ][parse_many(st.p, "body", Ctx(st.tag_name, "parse_any_element"))]
    ][element_starting_tag(p)]

\* the text that decides whether an attribute starts here
attribute_token_text(p) ==
    IF at(p, ":") THEN <<":">> \o tokens[peek_nth(p, 1)].s ELSE tokens[peek(p)].s

\* the name of an attribute: a word, or a Twig print statement
attribute_name(p) ==
    [p1 \in Any |->
    [p2 \in Any |->
        [p |-> IF at(p2, "=") THEN bump(p2) ELSE p2, m |-> p1.ret, value |-> at(p2, "=")]
    ][IF HTML_ATTRIBUTE_NAME_REGEX(attribute_token_text(p))
              THEN IF at(p1, ":") THEN bump_next_2_as(p1, "word")
                   ELSE bump_as(p1, "word")
              ELSE parse_twig_var_statement(p1)]
    ][start(p)]

\* (a variant for comparison) the body of a block in an attribute list is
\* parsed as the document is
parse_html_attribute_or_twig_any_element(p) ==
    CASE at_end(p) \/ (at(p, ":") /\ peek_nth(p, 1) > NTok) -> [p EXCEPT !.ret = 0]
      [] ~at_end(p) /\ ~(at(p, ":") /\ peek_nth(p, 1) > NTok)
         /\ ~HTML_ATTRIBUTE_NAME_REGEX(attribute_token_text(p)) /\ ~at(p, "{{") ->
            parse_any_twig(p, "parse_any_element")
      [] OTHER ->
            [a \in Any |->
            [p3 \in Any |->
                complete(p3, a.m, "HTML_ATTRIBUTE")
            ][IF a.value THEN parse_html_attribute_value_string(a.p) ELSE a.p]
            ][attribute_name(p)]

parse_html_attribute_or_twig(p) ==
    CASE at_end(p) \/ (at(p, ":") /\ peek_nth(p, 1) > NTok) -> [p EXCEPT !.ret = 0]
      [] ~at_end(p) /\ ~(at(p, ":") /\ peek_nth(p, 1) > NTok)
         /\ ~HTML_ATTRIBUTE_NAME_REGEX(attribute_token_text(p)) /\ ~at(p, "{{") ->
            parse_any_twig(p, "parse_html_attribute_or_twig")
      [] OTHER ->
            [a \in Any |->
            [p3 \in Any |->
                complete(p3, a.m, "HTML_ATTRIBUTE")
            ][IF a.value THEN parse_html_attribute_value_string(a.p) ELSE a.p]
            ][attribute_name(p)]

\* (a variant for comparison) whatever follows `=` is taken as the value
inner_no_quote_parser_any_token(p) ==
    IF at(p, "{{") THEN parse_twig_var_statement(p) ELSE bump(p)

inner_no_quote_parser(p) ==
    CASE at(p, "word") -> bump(p)
      [] at(p, "{{") -> parse_twig_var_statement(p)
      [] OTHER ->
            With(add_error(p, "html attribute value", <<>>), LAMBDA e :
            recover(e, {"word", ">", "/>"}))

child_parser(p, inner_twig_child_parser) ==
    [r \in Any |->
        IF r.ret # 0 THEN r
        ELSE IF at_set(r, {">", "/>"}) \/ at_set(r, GENERAL_RECOVERY_SET) \/ at_end(r)
        THEN r
        ELSE bump(r)
    ][parse_any_twig(p, inner_twig_child_parser)]

\* (a variant for comparison) the value without a node of its own for what
\* is between the quotes
\* (a variant for comparison) the value without an inner node
value_opening_flat(p) ==
    With(start(p), LAMBDA p1 :
    With(at_set(p1, {"\"", "'"}), LAMBDA quoted :
    [p |-> IF quoted THEN bump(p1) ELSE p1, m |-> p1.ret,
     quote_kind |-> IF quoted THEN tokens[peek(p1)].k ELSE ""]))

parse_html_attribute_value_string_flat(p) ==
    [o \in Any |->
    [p4 \in Any |->
        With(IF o.quote_kind # "" THEN expect(p4, o.quote_kind, {">", "/>"}) ELSE p4, LAMBDA p7 :
        complete(p7, o.m, "HTML_STRING"))
    ][CASE o.quote_kind = "\"" -> call("inner_double_quote_parser", o.p)
           [] o.quote_kind = "'" -> call("inner_single_quote_parser", o.p)
           [] OTHER -> inner_no_quote_parser(o.p)]
    ][value_opening_flat(p)]

\* parse_html_attribute_value_string, from its beginning to the start of the
\* inner node: the parser, the marker of HTML_STRING and quote_kind ("" is None)
value_opening(p) ==
    With(start(p), LAMBDA p1 :
    With(at_set(p1, {"\"", "'"}), LAMBDA quoted :
    With(IF quoted THEN tokens[peek(p1)].k ELSE "", LAMBDA quote_kind :
    With(IF quoted THEN bump(p1) ELSE p1, LAMBDA p2 :
    [p |-> start(p2), m |-> p1.ret, quote_kind |-> quote_kind]))))

\* (a variant for comparison) trailing trivia is left to the next token
value_closing_trivia_left(p4, inner_m, m, quote_kind) ==
    With(complete(p4, inner_m, "HTML_STRING_INNER"), LAMBDA p6 :
    With(IF quote_kind # "" THEN expect(p6, quote_kind, {">", "/>"}) ELSE p6, LAMBDA p7 :
    complete(p7, m, "HTML_STRING")))

\* (a variant for comparison) a quote after an unquoted value is left alone
value_closing_quote_left(p4, inner_m, m, quote_kind) ==
    With(IF quote_kind # "" THEN explicitly_consume_trivia(p4) ELSE p4, LAMBDA p5 :
    With(complete(p5, inner_m, "HTML_STRING_INNER"), LAMBDA p6 :
    With(IF quote_kind # "" THEN expect(p6, quote_kind, {">", "/>"}) ELSE p6, LAMBDA p7 :
    complete(p7, m, "HTML_STRING"))))

\* ... from the end of the inner parser to the end
value_closing(p4, inner_m, m, quote_kind) ==
    With(IF quote_kind # "" THEN explicitly_consume_trivia(p4) ELSE p4, LAMBDA p5 :
    With(complete(p5, inner_m, "HTML_STRING_INNER"), LAMBDA p6 :
    With(IF quote_kind # "" THEN expect(p6, quote_kind, {">", "/>"})
              ELSE IF at_set(p6, {"\"", "'"})
              THEN With(start(p6), LAMBDA e1 :
                   With(bump(e1), LAMBDA e2 :
                   With(add_error_at(e2,
                                 "no trailing quote because there is no leading quote",
                                 peek(e1)), LAMBDA e3 :
                   complete(e3, e1.ret, "ERROR"))))
              ELSE p6, LAMBDA p7 :
    complete(p7, m, "HTML_STRING"))))

parse_html_attribute_value_string(p) ==
    [o \in Any |->
    [p4 \in Any |->
        value_closing(p4, o.p.ret, o.m, o.quote_kind)
    ][CASE o.quote_kind = "\"" -> call("inner_double_quote_parser", o.p)
           [] o.quote_kind = "'" -> call("inner_single_quote_parser", o.p)
           [] OTHER -> inner_no_quote_parser(o.p)]
    ][value_opening(p)]

-----------------------------------------------------------------------------
(* Twig statements *)

\* recovery set of the expects of a Twig statement
TWIG_STATEMENT_RECOVERY == {"%}", "</"}

parse_twig_comment(p) ==
    [p2 \in Any |->
    [p3 \in Any |->
        With(expect(p3, "#}", {}), LAMBDA p4 :
        complete(p4, p2.ret, "TWIG_COMMENT"))
    ][parse_many(p2, "twig_comment", NoCtx)]
    ][start_and_bump(p)]

parse_twig_var_statement(p) ==
    [p2 \in Any |->
    [e \in Any |->
        With(IF e.ret = 0 THEN add_error(e, "twig expression", <<>>) ELSE e, LAMBDA p3 :
        With(expect(p3, "}}", {}), LAMBDA p4 :
        complete(p4, p2.ret, "TWIG_VAR")))
    ][call("parse_twig_expression", p2)]
    ][start_and_bump(p)]

\* parse_twig_block_statement, from its beginning to the start of the body
block_starting(p) ==
    With(start(p), LAMBDA p1 :
    With(start(p1), LAMBDA p2 :
    With(bump(p2), LAMBDA b :
    With(bump(b), LAMBDA p3 :
    With(expect(p3, "word", TWIG_STATEMENT_RECOVERY), LAMBDA p4 :
    With(expect(p4, "%}", TWIG_STATEMENT_RECOVERY), LAMBDA p5 :
    With(complete(p5, p2.ret, "TWIG_STARTING_BLOCK"), LAMBDA p6 :
    [p |-> start(p6), m |-> p1.ret])))))))

\* ... from the end of the body to the end of the block
block_ending(p8, body_m, m) ==
    With(complete(p8, body_m, "BODY"), LAMBDA p9 :
    With(start(p9), LAMBDA p10 :
    With(expect(p10, "{%", TWIG_STATEMENT_RECOVERY), LAMBDA p11 :
    With(expect(p11, "endblock", TWIG_STATEMENT_RECOVERY), LAMBDA p12 :
    With(expect(p12, "%}", TWIG_STATEMENT_RECOVERY), LAMBDA p13 :
    With(complete(p13, p10.ret, "TWIG_ENDING_BLOCK"), LAMBDA p14 :
    complete(p14, m, "TWIG_BLOCK")))))))

parse_twig_block_statement(p, child) ==
    [s \in Any |->
    [p8 \in Any |->
        block_ending(p8, s.p.ret, s.m)
    ][parse_many(s.p, "twig_body", Ctx(<<>>, child))]
    ][block_starting(p)]

\* parse_any_twig(parser, child_parser)
parse_any_twig(p, child) ==
    CASE at(p, "{%") /\ at_following2(p, "{%", "block") ->
            parse_twig_block_statement(p, child)
      [] at(p, "{%") /\ ~at_following2(p, "{%", "block") ->
            With(start(p), LAMBDA p1 :
            With(bump(p1), LAMBDA p2 :
            With(add_error(p2, "twig tag", <<>>), LAMBDA p3 :
            complete(p3, p1.ret, "ERROR"))))
      [] at(p, "{{") -> parse_twig_var_statement(p)
      [] at(p, "{#") -> parse_twig_comment(p)
      [] OTHER -> [p EXCEPT !.ret = 0]

\* parse_twig_expression(parser): TWIG_EXPRESSION around the sub-expression
parse_twig_expression(p) ==
    [r \in Any |->
        IF r.ret = 0 THEN r
        ELSE With(precede(r, r.ret), LAMBDA q :
             complete(q, q.ret, "TWIG_EXPRESSION"))
    ][parse_twig_literal(p)]

-----------------------------------------------------------------------------
(* Twig literals *)

parse_twig_name(p) ==
    IF at_end(p) THEN [p EXCEPT !.ret = 0]
    ELSE IF ~at_set(p, {"same as", "divisible by"}) /\ ~TWIG_NAME_REGEX(peek_text(p))
    THEN [p EXCEPT !.ret = 0]
    ELSE With(start(p), LAMBDA p1 :
         With(bump_as(p1, "word"), LAMBDA p2 :
         complete(p2, p1.ret, "TWIG_LITERAL_NAME")))

\* `if p.at(T![","]) { p.bump(); }` after an array item, hash pair or argument
separated(p) == IF at(p, ",") THEN bump(p) ELSE p

parse_twig_number(p) ==
    With(start(p), LAMBDA p1 :
    With(bump(p1), LAMBDA p2 :
    complete(p2, p1.ret, "TWIG_LITERAL_NUMBER")))

parse_twig_null(p) ==
    With(start(p), LAMBDA p1 :
    With(bump(p1), LAMBDA p2 :
    complete(p2, p1.ret, "TWIG_LITERAL_NULL")))

parse_twig_boolean(p) ==
    With(start(p), LAMBDA p1 :
    With(bump(p1), LAMBDA p2 :
    complete(p2, p1.ret, "TWIG_LITERAL_BOOLEAN")))

\* the filter loop of parse_twig_literal
filters(p, last_node) ==
    [q \in Any |->
        [q EXCEPT !.ret = q.node]
    ][parse_many([p EXCEPT !.node = last_node], "filters", NoCtx)]

parse_twig_literal(p) ==
    [r \in Any |->
        IF r.ret = 0 THEN r ELSE filters(r, r.ret)
    ][CASE at(p, "number") -> parse_twig_number(p)
           [] at_set(p, {"\"", "'"}) -> parse_twig_string(p, TRUE)
           [] at(p, "[") -> parse_twig_array(p)
           [] at(p, "null") -> parse_twig_null(p)
           [] at_set(p, {"true", "false"}) -> parse_twig_boolean(p)
           [] at(p, "{") -> parse_twig_hash(p)
           [] OTHER -> parse_twig_name_postfix(p)]

\* the child parser of the string loop
\* the interpolation of string_part, from `#{` to the start of its expression
interpolation_opening(p) ==
    With(explicitly_consume_trivia(p), LAMBDA t :
    With(start(t), LAMBDA p1 :
    [p |-> bump(p1), m |-> p1.ret]))

interpolation_closing(e, m) ==
    With(IF e.ret = 0 THEN add_error(e, "twig expression", <<>>) ELSE e, LAMBDA p2 :
    With(expect(p2, "}", {}), LAMBDA p3 :
    complete(p3, m, "TWIG_LITERAL_STRING_INTERPOLATION")))

\* (a variant for comparison) a backslash is a token like any other
string_part_no_escape(p, ctx) ==
    CASE at(p, "#{") /\ ~ctx.interp ->
            With(bump(p), LAMBDA b :
            add_error_at(b, "no string interpolation, because it isn't allowed here",
                         peek(p)))
      [] at(p, "#{") /\ ctx.interp ->
            [o \in Any |->
            [e \in Any |->
                interpolation_closing(e, o.m)
            ][call("parse_twig_expression", o.p)]
            ][interpolation_opening(p)]
      [] OTHER -> bump(p)

string_part(p, ctx) ==
    CASE at_following2(p, "\\", ctx.quote) -> With(bump(p), LAMBDA b : bump(b))
      [] ~at_following2(p, "\\", ctx.quote) /\ at(p, "#{") /\ ~ctx.interp ->
            With(bump(p), LAMBDA b :
            add_error_at(b, "no string interpolation, because it isn't allowed here",
                         peek(p)))
      [] ~at_following2(p, "\\", ctx.quote) /\ at(p, "#{") /\ ctx.interp ->
            [o \in Any |->
            [e \in Any |->
                interpolation_closing(e, o.m)
            ][call("parse_twig_expression", o.p)]
            ][interpolation_opening(p)]
      [] OTHER -> bump(p)

\* (a variant for comparison) the quote kind does not matter for interpolation
string_opening_any_quote(p, interpolation_allowed) ==
    With(start(p), LAMBDA p1 :
    With(tokens[peek(p1)].k, LAMBDA quote_kind :
    With(bump(p1), LAMBDA p2 :
    [p |-> start(p2), m |-> p1.ret, ctx |-> StringCtx(quote_kind, interpolation_allowed)])))

\* parse_twig_string, from its beginning to the start of the inner node
string_opening(p, interpolation_allowed) ==
    With(start(p), LAMBDA p1 :
    With(tokens[peek(p1)].k, LAMBDA quote_kind :
    With(bump(p1), LAMBDA p2 :
    [p |-> start(p2), m |-> p1.ret,
     ctx |-> StringCtx(quote_kind,
                       IF quote_kind = "\"" THEN interpolation_allowed ELSE FALSE)])))

parse_twig_string(p, interpolation_allowed) ==
    [o \in Any |->
    [p4 \in Any |->
        With(explicitly_consume_trivia(p4), LAMBDA p5 :
        With(complete(p5, o.p.ret, "TWIG_LITERAL_STRING_INNER"), LAMBDA p6 :
        With(expect(p6, o.ctx.quote, {}), LAMBDA p7 :
        complete(p7, o.m, "TWIG_LITERAL_STRING"))))
    ][parse_many(o.p, "string", o.ctx)]
    ][string_opening(p, interpolation_allowed)]

parse_twig_array(p) ==
    [b \in Any |->
    [p2 \in Any |->
        With(expect(p2, "]", {}), LAMBDA p3 :
        complete(p3, b.ret, "TWIG_LITERAL_ARRAY"))
    ][parse_many(b, "array", NoCtx)]
    ][start_and_bump(p)]

parse_twig_hash(p) ==
    [b \in Any |->
    [p2 \in Any |->
        With(expect(p2, "}", {}), LAMBDA p3 :
        complete(p3, b.ret, "TWIG_LITERAL_HASH"))
    ][parse_many(b, "hash", NoCtx)]
    ][start_and_bump(p)]

\* the key of a hash pair; ret is 0 when there is none
hash_key(p) ==
    CASE at(p, "number") ->
            With(parse_twig_number(p), LAMBDA k :
            With(precede(k, k.ret), LAMBDA q :
            complete(q, q.ret, "TWIG_LITERAL_HASH_KEY")))
      [] at_set(p, {"'", "\""}) ->
            [k \in Any |->
                With(precede(k, k.ret), LAMBDA q :
                complete(q, q.ret, "TWIG_LITERAL_HASH_KEY"))
            ][parse_twig_string(p, FALSE)]
      [] at(p, "(") ->
            [b \in Any |->
            [e \in Any |->
                With(IF e.ret = 0 THEN add_error(e, "twig expression", <<>>) ELSE e, LAMBDA p2 :
                With(expect(p2, ")", {}), LAMBDA p3 :
                complete(p3, b.ret, "TWIG_LITERAL_HASH_KEY")))
            ][call("parse_twig_expression", b)]
            ][start_and_bump(p)]
      [] /\ ~at_end(p) /\ ~at_set(p, {"number", "'", "\"", "("})
         /\ TWIG_NAME_REGEX(peek_text(p)) ->
            With(start(p), LAMBDA p1 :
            With(bump_as(p1, "word"), LAMBDA p2 :
            complete(p2, p1.ret, "TWIG_LITERAL_HASH_KEY")))
      [] OTHER -> [p EXCEPT !.ret = 0]

\* (a variant for comparison) a key without a value is reported
hash_value_required(k) ==
    IF at(k, ":")
    THEN [b \in Any |->
         [e \in Any |->
             IF e.ret = 0 THEN add_error(e, "value as twig expression", <<>>) ELSE e
         ][call("parse_twig_expression", b)]
         ][bump(k)]
    ELSE add_error(k, ":", <<>>)

\* the value of a hash pair, when a colon follows the key
hash_value(k) ==
    IF at(k, ":")
    THEN [b \in Any |->
         [e \in Any |->
             IF e.ret = 0 THEN add_error(e, "value as twig expression", <<>>) ELSE e
         ][call("parse_twig_expression", b)]
         ][bump(k)]
    ELSE k

parse_twig_hash_pair(p) ==
    [k \in Any |->
        IF k.ret = 0 THEN k
        ELSE [p1 \in Any |->
                 With(precede(p1, k.ret), LAMBDA p2 :
                 complete(p2, p2.ret, "TWIG_LITERAL_HASH_PAIR"))
             ][hash_value(k)]
    ][hash_key(p)]

\* the child parser of the postfix loop
postfix(p) ==
    [q \in Any |->
        [q EXCEPT !.node = q.ret]
    ][CASE at(p, ".") -> parse_twig_accessor(p, p.node)
           [] at(p, "[") -> parse_twig_indexer(p, p.node)
           [] at(p, "(") -> parse_twig_function(p, p.node)
           [] OTHER -> [p EXCEPT !.ret = p.node]]

parse_twig_name_postfix(p) ==
    [n \in Any |->
        IF n.ret = 0 THEN n
        ELSE [q \in Any |->
                 [q EXCEPT !.ret = q.node]
             ][parse_many([n EXCEPT !.node = n.ret], "postfix", NoCtx)]
    ][parse_twig_name(p)]

\* (a variant for comparison) the outer marker precedes last_node itself
wrap_operand_bare(p, last_node) == precede(p, last_node)

\* wrap last_node in an operand and create the outer marker (left in ret)
wrap_operand(p, last_node) ==
    With(precede(p, last_node), LAMBDA p1 :
    With(complete(p1, p1.ret, "TWIG_OPERAND"), LAMBDA p2 :
    precede(p2, p2.ret)))

\* `(` arguments `)` after the opening parenthesis was seen
\* `(` is taken and TWIG_ARGUMENTS started; ret is its marker
arguments_opening(p) ==
    With(bump(p), LAMBDA b :
    start(b))

arguments(p) ==
    [p1 \in Any |->
    [p2 \in Any |->
        With(complete(p2, p1.ret, "TWIG_ARGUMENTS"), LAMBDA p3 :
        expect(p3, ")", {}))
    ][parse_many(p1, "arguments", NoCtx)]
    ][arguments_opening(p)]

\* parse_twig_filter, from `|` to the name of the filter
filter_name(p, last_node) ==
    With(wrap_operand(p, last_node), LAMBDA o :
    With(bump(o), LAMBDA b :
    With(start(b), LAMBDA p1 :
    [p |-> parse_twig_name(p1), outer |-> o.ret, m |-> p1.ret])))

\* the arguments of the filter, if a `(` follows its name
filter_arguments(n) ==
    CASE n.ret = 0 -> add_error(n, "twig filter", <<>>)
      [] n.ret # 0 /\ at(n, "(") -> arguments(n)
      [] OTHER -> n

parse_twig_filter(p, last_node) ==
    [f \in Any |->
    [p2 \in Any |->
        With(complete(p2, f.m, "TWIG_OPERAND"), LAMBDA p3 :
        complete(p3, f.outer, "TWIG_FILTER"))
    ][filter_arguments(f.p)]
    ][filter_name(p, last_node)]

\* parse_twig_indexer, from `[` to the first expression
index_opening(p, last_node) ==
    With(wrap_operand(p, last_node), LAMBDA o :
    With(bump(o), LAMBDA b :
    With(start(b), LAMBDA p1 :
    [p |-> IF at(p1, ":") THEN bump(p1) ELSE p1, outer |-> o.ret, index_m |-> p1.ret,
     colon1 |-> at(p1, ":")])))

\* the lower bound, or the index
index_lower(p2) ==
    [e \in Any |->
        IF e.ret = 0 /\ ~at(e, ":") THEN add_error(e, "twig expression", <<>>) ELSE e
    ][call("parse_twig_expression", p2)]

\* the upper bound, after a colon
index_upper(p3) ==
    IF at(p3, ":")
    THEN [c \in Any |->
         [f \in Any |->
             IF f.ret = 0 THEN add_error(f, "twig expression", <<>>) ELSE f
         ][call("parse_twig_expression", c)]
         ][bump(p3)]
    ELSE p3

\* (a variant for comparison) only a colon before the first expression counts
index_closing_leading_colon(p4, o, is_slice) ==
    With(complete(p4, o.index_m,
                  IF o.colon1 THEN "TWIG_INDEX_RANGE" ELSE "TWIG_INDEX"), LAMBDA p5 :
    With(expect(p5, "]", {}), LAMBDA p6 :
    complete(p6, o.outer, "TWIG_INDEX_LOOKUP")))

index_closing(p4, o, is_slice) ==
    With(complete(p4, o.index_m,
                  IF is_slice THEN "TWIG_INDEX_RANGE" ELSE "TWIG_INDEX"), LAMBDA p5 :
    With(expect(p5, "]", {}), LAMBDA p6 :
    complete(p6, o.outer, "TWIG_INDEX_LOOKUP")))

parse_twig_indexer(p, last_node) ==
    [o \in Any |->
    [p3 \in Any |->
    [p4 \in Any |->
        index_closing(p4, o, o.colon1 \/ at(p3, ":"))
    ][index_upper(p3)]
    ][index_lower(o.p)]
    ][index_opening(p, last_node)]

parse_twig_accessor(p, last_node) ==
    With(wrap_operand(p, last_node), LAMBDA o :
    With(o.ret, LAMBDA outer :
    With(bump(o), LAMBDA b :
    With(start(b), LAMBDA p1 :
    With(parse_twig_name(p1), LAMBDA n :
    With(IF n.ret = 0
              THEN add_error(n, "twig variable property, key or method", <<>>)
              ELSE n, LAMBDA p2 :
    With(complete(p2, p1.ret, "TWIG_OPERAND"), LAMBDA p3 :
    complete(p3, outer, "TWIG_ACCESSOR"))))))))

parse_twig_function(p, last_node) ==
    [o \in Any |->
    [p1 \in Any |->
        complete(p1, o.ret, "TWIG_FUNCTION_CALL")
    ][arguments(o)]
    ][wrap_operand(p, last_node)]

\* the name and the `=` of a named argument
named_argument_opening(p) ==
    With(start(p), LAMBDA p1 :
    With(bump(p1), LAMBDA b :
    [p |-> expect(b, "=", {}), m |-> p1.ret]))

\* (a variant for comparison) any argument that starts with a word is named
parse_twig_function_argument_by_word(p) ==
    IF at(p, "word")
    THEN [o \in Any |->
         [p3 \in Any |->
             complete(p3, o.m, "TWIG_NAMED_ARGUMENT")
         ][call("parse_twig_expression", o.p)]
         ][named_argument_opening(p)]
    ELSE call("parse_twig_expression", p)

parse_twig_function_argument(p) ==
    IF at_following2(p, "word", "=")
    THEN [o \in Any |->
         [p3 \in Any |->
             complete(p3, o.m, "TWIG_NAMED_ARGUMENT")
         ][call("parse_twig_expression", o.p)]
         ][named_argument_opening(p)]
    ELSE call("parse_twig_expression", p)

-----------------------------------------------------------------------------
(* Tree builder: replays the event log into a tree, written as the sequence *)
(* of its brackets and leaves in document order                             *)

\* an entry of the tree; d is the number of nodes open after it (set by build_tree)
TrOpen(k)      == [t |-> "open", k |-> k, s |-> <<>>, i |-> 0, d |-> 0]
TrClose        == [t |-> "close", k |-> "", s |-> <<>>, i |-> 0, d |-> 0]
TrTok(k, s, i) == [t |-> "tok", k |-> k, s |-> s, i |-> i, d |-> 0]

\* the event indices of the forward-parent chain that starts at i
RECURSIVE ForwardParents(_, _)
ForwardParents(ev, i) ==
    IF ev[i].fp = 0 THEN <<i>> ELSE <<i>> \o ForwardParents(ev, ev[i].fp)

Reverse(seq) == [j \in 1..Len(seq) |-> seq[Len(seq) + 1 - j]]

\* what the builder appends on event i: a Start opens its forward parents,
\* outermost first, and then itself; a Start that was opened as the forward
\* parent of an earlier event is skipped when the replay reaches it
Replay(ev, i) ==
    CASE ev[i].t = "start" ->
            IF \E j \in 1..(i - 1) : ev[j].fp = i THEN <<>>
            ELSE With(Reverse(ForwardParents(ev, i)), LAMBDA chain :
                 [j \in 1..Len(chain) |-> TrOpen(ev[chain[j]].k)])
      [] ev[i].t = "finish" -> <<TrClose>>
      [] ev[i].t = "tok" -> <<TrTok(ev[i].k, ev[i].s, ev[i].i)>>
      [] OTHER -> <<>>

RECURSIVE ReplayRange(_, _, _)
ReplayRange(ev, lo, hi) ==
    IF lo > hi THEN <<>>
    ELSE IF lo = hi THEN Replay(ev, lo)
    ELSE With((lo + hi) \div 2, LAMBDA mid :
         ReplayRange(ev, lo, mid) \o ReplayRange(ev, mid + 1, hi))

\* the entries lo..hi of tr with their depths, base nodes being open before lo
RECURSIVE Nested(_, _, _, _)
Nested(tr, lo, hi, base) ==
    IF lo > hi THEN <<>>
    ELSE IF lo = hi
    THEN <<[tr[lo] EXCEPT !.d = base + (CASE tr[lo].t = "open" -> 1
                                          [] tr[lo].t = "close" -> -1
                                          [] OTHER -> 0)]>>
    ELSE With((lo + hi) \div 2, LAMBDA mid :
         With(Nested(tr, lo, mid, base), LAMBDA left :
         left \o Nested(tr, mid + 1, hi, left[Len(left)].d)))

build_tree(ev) ==
    With(ReplayRange(ev, 1, Len(ev)), LAMBDA tr :
    Nested(tr, 1, Len(tr), 0))

-----------------------------------------------------------------------------
(* The parse as a state machine: one step per iteration of root's loop *)

P == Parser(pos, events, errors, stalls, diverged)

Store(q, ph) ==
    /\ pos' = q.pos
    /\ events' = q.ev
    /\ errors' = q.err
    /\ stalls' = q.stalls
    /\ diverged' = q.div
    /\ phase' = ph
    /\ iters' = iters + 1
    /\ UNCHANGED <<tokens, tree, given, checkvars, contextvars>>

\* root: parse_any_element returned a node
RootElement ==
    /\ phase = "root"
    /\ \E r \in {call("parse_any_element", P)} :
          /\ r.ret # 0
          /\ Store(r, "root")

\* (a variant for comparison) a root_error that skips the token instead of bumping it into the ERROR node
root_error_skipping(p) ==
    With(start(p), LAMBDA p1 :
    With([p1 EXCEPT !.pos = peek(p1) + 1], LAMBDA p2 :
    complete(p2, p1.ret, "ERROR")))

\* root: nothing parsed and not at the end: one token into an ERROR node
root_error(p) ==
    With(start(p), LAMBDA p1 :
    With(bump(p1), LAMBDA p2 :
    complete(p2, p1.ret, "ERROR")))

RootError ==
    /\ phase = "root"
    /\ ~at_end(P)
    /\ \E r \in {call("parse_any_element", P)} :
          /\ r.ret = 0
          /\ \E q \in {root_error(r)} : Store(q, "root")

\* (a variant for comparison) a root loop that breaks whenever nothing was parsed, at the end or not
RootComplete_anywhere ==
    /\ phase = "root"
    /\ \E r \in {call("parse_any_element", P)} :
          /\ r.ret = 0
          /\ \E q \in {complete(r, 1, "ROOT")} : Store(q, "parsed")

\* root: nothing parsed at the end of the input: the loop breaks, ROOT is completed
RootComplete ==
    /\ phase = "root"
    /\ at_end(P)
    /\ \E r \in {call("parse_any_element", P)} :
          /\ r.ret = 0
          /\ \E q \in {complete(r, 1, "ROOT")} : Store(q, "parsed")

\* the event log is replayed into the tree
BuildTree ==
    /\ phase = "parsed"
    /\ tree' = build_tree(events)
    /\ phase' = "built"
    /\ UNCHANGED <<tokens, pos, events, errors, stalls, diverged, iters, given, checkvars, contextvars>>

Next == RootElement \/ RootError \/ RootComplete \/ BuildTree

\* the state when root has called parser.start()
InitParser ==
    /\ pos = 1
    /\ events = <<EvPlaceholder>>
    /\ errors = <<>>
    /\ stalls = {}
    /\ diverged = FALSE
    /\ phase = "root"
    /\ iters = 0
    /\ tree = <<>>
    /\ NotChecking
    /\ NotCombining

-----------------------------------------------------------------------------
(***************************************************************************)
(* Inputs.  A token stream is a sequence of chunks, each chunk a piece of  *)
(* template the lexer can produce next to any other chunk (words carry     *)
(* their leading whitespace, so no two words are adjacent).                *)
(***************************************************************************)
LT == Tok("<", <<"<">>)
LTS == Tok("</", <<"<", "/">>)
GT == Tok(">", <<">">>)
SGT == Tok("/>", <<"/", ">">>)
WS == Tok("ws", <<" ">>)
EQ == Tok("=", <<"=">>)
DQ == Tok("\"", <<"\"">>)
SQ == Tok("'", <<"'">>)
DIV == Tok("word", <<"d", "i", "v">>)
SPAN == Tok("word", <<"s", "p", "a", "n">>)
INPUT == Tok("word", <<"i", "n", "p", "u", "t">>)
HELLO == Tok("word", <<"h", "e", "l", "l", "o">>)
NAME == Tok("word", <<"a">>)
OPEN_BLOCK == Tok("{%", <<"{", "%">>)
CLOSE_BLOCK == Tok("%}", <<"%", "}">>)
OPEN_VAR == Tok("{{", <<"{", "{">>)
CLOSE_VAR == Tok("}}", <<"}", "}">>)
BLOCK == Tok("block", <<"b", "l", "o", "c", "k">>)
ENDBLOCK == Tok("endblock", <<"e", "n", "d", "b", "l", "o", "c", "k">>)
DOT == Tok(".", <<".">>)
PIPE == Tok("|", <<"|">>)
LPAREN == Tok("(", <<"(">>)
RPAREN == Tok(")", <<")">>)
LBRACKET == Tok("[", <<"[">>)
RBRACKET == Tok("]", <<"]">>)
LBRACE == Tok("{", <<"{">>)
RBRACE == Tok("}", <<"}">>)
OPEN_COMMENT == Tok("<!--", <<"<", "!", "-", "-">>)
CLOSE_COMMENT == Tok("-->", <<"-", "-", ">">>)

\* the longest input of each family, in chunks
MaxChunks == 4
MaxNest == 5

RECURSIVE Flatten(_)
Flatten(cs) == IF cs = <<>> THEN <<>> ELSE Head(cs) \o Flatten(Tail(cs))

Streams(prefix, chunks, n) ==
    { prefix \o Flatten(cs) : cs \in UNION { [1..m -> chunks] : m \in 0..n } }

\* nested elements: <div> </div> <span> </span> and text
NestInputs ==
    Streams(<<>>, { <<LT, DIV, GT>>, <<LTS, DIV, GT>>, <<LT, SPAN, GT>>,
                    <<LTS, SPAN, GT>>, <<WS, HELLO>> }, MaxNest)

\* the three forms of a tag: normal, void (<input>) and self-closed (<div/>)
ElemInputs ==
    Streams(<<>>, { <<LT, DIV, GT>>, <<LTS, DIV, GT>>, <<LT, INPUT, GT>>,
                    <<LTS, INPUT, GT>>, <<LT, DIV, SGT>>, <<WS, HELLO>> }, MaxChunks)

\* elements in and around a Twig block
BlockInputs ==
    Streams(<<>>, { <<OPEN_BLOCK, WS, BLOCK, WS, NAME, WS, CLOSE_BLOCK>>,
                    <<OPEN_BLOCK, WS, ENDBLOCK, WS, CLOSE_BLOCK>>,
                    <<LT, DIV, GT>>, <<LTS, DIV, GT>>, <<WS, HELLO>> }, MaxChunks)

\* the inside of a starting tag
AttrInputs ==
    Streams(<<LT, DIV>>, { <<WS, NAME>>, <<EQ>>, <<DQ>>, <<SQ>>, <<GT>>,
                           <<LTS, DIV, GT>> }, MaxChunks)

\* the inside of a Twig print statement
TwigInputs ==
    Streams(<<OPEN_VAR, WS, NAME>>, { <<WS, NAME>>, <<DOT>>, <<PIPE>>, <<LPAREN>>,
                                      <<RPAREN>>, <<WS, CLOSE_VAR>> }, MaxChunks)

\* Twig literals in a print statement: strings, arrays and hashes
LiteralInputs ==
    Streams(<<OPEN_VAR>>, { <<WS, NAME>>, <<DQ>>, <<LBRACKET>>, <<RBRACKET>>,
                            <<LBRACE>>, <<RBRACE>>, <<WS, CLOSE_VAR>> }, MaxChunks)

\* HTML comments
CommentInputs ==
    Streams(<<>>, { <<OPEN_COMMENT>>, <<CLOSE_COMMENT>>, <<WS, HELLO>>,
                    <<LT, DIV, GT>>, <<LTS, DIV, GT>> }, MaxChunks)

Init ==
    /\ tokens \in NestInputs \cup ElemInputs \cup BlockInputs \cup AttrInputs
                  \cup TwigInputs \cup LiteralInputs \cup CommentInputs
    /\ InitParser
    /\ given = <<>>

Spec == Init /\ [][Next]_vars

-----------------------------------------------------------------------------
(***************************************************************************)
(* recover on its own: recover(given) is called on the tokens, then the    *)
(* caller completes its node and the tree is built.                        *)
(***************************************************************************)
OPEN_HASH == Tok("{#", <<"{", "#">>)
OPEN_DOCTYPE == Tok("<!", <<"<", "!">>)

\* the longest input, in chunks
MaxRecover == 3

RecoverInputs ==
    Streams(<<>>, { <<WS, NAME>>, <<GT>>, <<SGT>>, <<LTS>>, <<LT>>, <<OPEN_BLOCK>>,
                    <<OPEN_VAR>>, <<OPEN_HASH>>, <<OPEN_DOCTYPE>>, <<OPEN_COMMENT>> },
            MaxRecover)

\* the recovery sets html.rs calls recover and expect with
RecoverySets ==
    { {}, {">"}, {"word", ">"}, {"</", "word", ">"}, {"word", ">", "/>"},
      {">", "/>", "</", "word"} }

InitRecover ==
    /\ tokens \in RecoverInputs
    /\ given \in RecoverySets
    /\ pos = 1
    /\ events = <<EvPlaceholder>>
    /\ errors = <<>>
    /\ stalls = {}
    /\ diverged = FALSE
    /\ phase = "recover"
    /\ iters = 0
    /\ tree = <<>>
    /\ NotChecking
    /\ NotCombining

\* parser.recover(given)
Recover ==
    /\ phase = "recover"
    /\ \E r \in {recover(P, given)} : Store(r, "recovered")

\* the caller completes the node it started
RecoverReturn ==
    /\ phase = "recovered"
    /\ \E q \in {complete(P, 1, "ROOT")} : Store(q, "parsed")

NextRecover == Recover \/ RecoverReturn \/ BuildTree

SpecRecover == InitRecover /\ [][NextRecover]_vars

-----------------------------------------------------------------------------
(***************************************************************************)
(* parse_many on its own, an iteration of its loop in every step.  given   *)
(* is the call: the call site and what the closures of the call site       *)
(* captured (ctx, and the node the filter and postfix loops wrap).         *)
(***************************************************************************)
Call(site, ctx, node) == [site |-> site, ctx |-> ctx, node |-> node]

\* the loops that start with a node parsed before them
NODE_SITES == {"filters", "postfix"}

ManyCalls ==
    {Call(site, NoCtx, 0) : site \in {"text", "comment", "attrs", "dq", "sq",
                                      "twig_comment", "array", "hash", "arguments",
                                      "filters", "postfix"}}
    \cup {Call("body", Ctx(DIV.s, "parse_any_element"), 0),
          Call("twig_body", Ctx(<<>>, "parse_any_element"), 0),
          Call("string", StringCtx("\"", TRUE), 0)}

\* the longest input, in chunks
MaxMany == 3

ManyInputs ==
    Streams(<<>>, { <<WS, NAME>>, <<DOT>>, <<PIPE>>, <<GT>>, <<DQ>>, <<LT, DIV, GT>>,
                    <<LTS, DIV, GT>>, <<WS, CLOSE_VAR>> }, MaxMany)

\* the parser when the loop is entered: a name has been parsed where the loop
\* starts with a node
ManyStart(site) ==
    IF site \in NODE_SITES
    THEN parse_twig_name(Parser(1, <<EvPlaceholder>>, <<>>, {}, FALSE))
    ELSE Parser(1, <<EvPlaceholder>>, <<>>, {}, FALSE)

InitMany ==
    /\ tokens \in ManyInputs
    /\ \E c \in ManyCalls : \E s \in {ManyStart(c.site)} :
          /\ c.site \in NODE_SITES => s.ret # 0
          /\ given = [c EXCEPT !.node = s.ret]
          /\ pos = s.pos
          /\ events = s.ev
          /\ errors = s.err
    /\ stalls = {}
    /\ diverged = FALSE
    /\ phase = "loop"
    /\ iters = 0
    /\ tree = <<>>
    /\ NotChecking
    /\ NotCombining

\* the parser inside the loop
Pm == [P EXCEPT !.node = given.node]

\* an iteration of the loop of parse_many
ManyStep ==
    /\ phase = "loop"
    /\ \E s \in {parse_many_step(Pm, given.site, given.ctx)} :
          /\ pos' = s.p.pos
          /\ events' = s.p.ev
          /\ errors' = s.p.err
          /\ stalls' = s.p.stalls
          /\ diverged' = s.p.div
          /\ given' = [given EXCEPT !.node = s.p.node]
          /\ phase' = IF s.again THEN "loop" ELSE "returned"
    /\ iters' = iters + 1
    /\ UNCHANGED <<tokens, tree, checkvars, contextvars>>

NextMany == ManyStep

SpecMany == InitMany /\ [][NextMany]_vars

-----------------------------------------------------------------------------
(***************************************************************************)
(* Attribute values: root on the sources that start with `<div a=`, the    *)
(* value of the attribute and what follows it made of the pieces below.    *)
(***************************************************************************)
PRINT_NAME == <<OPEN_VAR, WS, NAME, WS, CLOSE_VAR>>

\* the longest input, in chunks after `<div a=`
MaxValue == 4

ValueInputs ==
    Streams(<<LT, DIV, WS, NAME, EQ>>,
            { <<WS, NAME>>, <<DQ>>, <<SQ>>, <<WS, DQ>>, <<EQ>>, <<GT>>, <<SGT>>,
              PRINT_NAME, <<LTS, DIV, GT>> }, MaxValue)

InitValue ==
    /\ tokens \in ValueInputs
    /\ InitParser
    /\ given = <<>>

SpecValue == InitValue /\ [][Next]_vars

-----------------------------------------------------------------------------
(***************************************************************************)
(* Twig strings: root on the sources that start with `{{ ` or `{{ {`, so   *)
(* that what follows is read as an expression or as the key of a hash.     *)
(***************************************************************************)
BACKSLASH == Tok("\\", <<"\\">>)
HASH_BRACE == Tok("#{", <<"#", "{">>)

\* the longest input, in chunks after the prefix
MaxString == 4

StringInputs ==
    UNION { Streams(prefix,
                    { <<DQ>>, <<SQ>>, <<WS, NAME>>, <<WS, DQ>>, <<BACKSLASH>>,
                      <<WS, HASH_BRACE>>, <<WS, RBRACE>>, <<WS, CLOSE_VAR>>,
                          <<LTS>> }, MaxString)
            : prefix \in { <<OPEN_VAR, WS>>, <<OPEN_VAR, WS, LBRACE>> } }

InitString ==
    /\ tokens \in StringInputs
    /\ InitParser
    /\ given = <<>>

SpecString == InitString /\ [][Next]_vars

\* a Twig string in a print statement in a single-quoted attribute value
MixedInputs ==
    Streams(<<LT, DIV, WS, NAME, EQ, SQ, OPEN_VAR, WS, DQ>>,
            { <<WS, NAME>>, <<WS, DQ>>, <<WS, CLOSE_VAR>>, <<WS, SQ>>, <<GT>> }, MaxValue)

\* quoted text of both languages
InitQuoted ==
    /\ tokens \in ValueInputs \cup StringInputs \cup MixedInputs
    /\ InitParser
    /\ given = <<>>

SpecQuoted == InitQuoted /\ [][Next]_vars

-----------------------------------------------------------------------------
(***************************************************************************)
(* Postfix operations: root on print statements whose expression is a name *)
(* followed by accessors, indexers, calls and filters.                     *)
(***************************************************************************)
NUMBER == Tok("number", <<"0">>)
COLON == Tok(":", <<":">>)
COMMA == Tok(",", <<",">>)

\* the longest input, in chunks after the prefix
MaxPostfix == 4

\* chains: `{{ a` and then `.a`, `[0]`, `()`, ` | a`, a lone `.` and ` }}`
ChainInputs ==
    Streams(<<OPEN_VAR, WS, NAME>>,
            { <<DOT, NAME>>, <<LBRACKET, NUMBER, RBRACKET>>, <<LPAREN, RPAREN>>,
              <<WS, PIPE, WS, NAME>>, <<DOT>>, <<WS, CLOSE_VAR>> }, MaxPostfix)

\* what stands between the brackets of an indexer: `{{ a[` and then the pieces
IndexInputs ==
    Streams(<<OPEN_VAR, WS, NAME, LBRACKET>>,
            { <<NUMBER>>, <<COLON>>, <<RBRACKET>>, <<WS, NAME>>, <<WS, CLOSE_VAR>>,
              <<LTS>> }, MaxPostfix)

\* the arguments of a call `{{ a(` and of a filter `{{ a|a(`
ArgumentInputs ==
    UNION { Streams(prefix,
                    { <<WS, NAME, WS, EQ, NUMBER>>, <<NUMBER>>, <<WS, NAME>>, <<EQ>>,
                      <<COMMA>>, <<RPAREN>> }, MaxPostfix)
            : prefix \in { <<OPEN_VAR, WS, NAME, LPAREN>>,
                           <<OPEN_VAR, WS, NAME, PIPE, NAME, LPAREN>> } }

InitPostfix ==
    /\ tokens \in ChainInputs \cup IndexInputs \cup ArgumentInputs
    /\ InitParser
    /\ given = <<>>

SpecPostfix == InitPostfix /\ [][Next]_vars

-----------------------------------------------------------------------------
(***************************************************************************)
(* Twig blocks in the three places a block can stand: in the attribute     *)
(* list of a starting tag, in a quoted attribute value and in the document *)
(***************************************************************************)
BLOCK_START == <<WS, OPEN_BLOCK, WS, BLOCK, WS, NAME, WS, CLOSE_BLOCK>>
BLOCK_END == <<WS, OPEN_BLOCK, WS, ENDBLOCK, WS, CLOSE_BLOCK>>

\* the longest input, in chunks after the prefix
MaxBlock == 4

\* `<div` and then blocks, attributes, the end of the tag and markup
AttrBlockInputs ==
    Streams(<<LT, DIV>>,
            { BLOCK_START, BLOCK_END, <<WS, NAME>>, <<EQ, DQ, NAME, DQ>>, <<GT>>,
              <<WS, LT, DIV, SGT>> }, MaxBlock)

\* `<div a="` and then blocks, words, print statements and the closing quote
ValueBlockInputs ==
    Streams(<<LT, DIV, WS, NAME, EQ, DQ>>,
            { BLOCK_START, BLOCK_END, <<WS, NAME>>, PRINT_NAME, <<DQ>>,
              <<LT, DIV, SGT>> }, MaxBlock)

\* blocks, elements and text in the document
DocumentBlockInputs ==
    Streams(<<>>,
            { BLOCK_START, BLOCK_END, <<WS, HELLO>>, <<LT, DIV, SGT>>, PRINT_NAME,
              <<LTS, DIV, GT>> }, MaxBlock)

InitBlock ==
    /\ tokens \in AttrBlockInputs \cup ValueBlockInputs \cup DocumentBlockInputs
    /\ InitParser
    /\ given = <<>>

SpecBlock == InitBlock /\ [][Next]_vars

-----------------------------------------------------------------------------
(***************************************************************************)
(* Hash literals: root on the sources that start with `{{ {`.              *)
(***************************************************************************)
IS == Tok("is", <<"i", "s">>)

\* the longest input, in chunks after `{{ {`
MaxHash == 4

HASH_PREFIX == <<OPEN_VAR, WS, LBRACE>>

\* the keys of the four kinds, the second a keyword
HASH_KEYS ==
    { <<WS, NAME>>, <<WS, IS>>, <<NUMBER>>, <<DQ, NAME, DQ>>, <<LPAREN, NUMBER, RPAREN>> }

HashInputs ==
    Streams(HASH_PREFIX,
            HASH_KEYS \cup { <<COLON, NUMBER>>, <<COMMA>>, <<WS, RBRACE>>,
                              <<WS, CLOSE_VAR, LTS>> },
            MaxHash)

InitHash ==
    /\ tokens \in HashInputs
    /\ InitParser
    /\ given = <<>>

SpecHash == InitHash /\ [][Next]_vars

-----------------------------------------------------------------------------
(***************************************************************************)
(* Reading the tree.  The tree is the bracket sequence the builder wrote:  *)
(* a node is the index of its "open" entry.                                *)
(***************************************************************************)

Nodes(tr, kind) == {j \in 1..Len(tr) : tr[j].t = "open" /\ tr[j].k = kind}

\* the "close" entry of node j: the first entry after j with fewer nodes open
\* (Len(tr) + 1 if the node is never closed)
CloseOf(tr, j) ==
    IF \E c \in (j + 1)..Len(tr) : tr[c].d < tr[j].d
    THEN CHOOSE c \in (j + 1)..Len(tr) :
            tr[c].d < tr[j].d /\ \A x \in (j + 1)..(c - 1) : tr[x].d >= tr[j].d
    ELSE Len(tr) + 1

\* the number of nodes open before entry c
DepthBefore(tr, c) ==
    CASE tr[c].t = "open" -> tr[c].d - 1
      [] tr[c].t = "close" -> tr[c].d + 1
      [] OTHER -> tr[c].d

\* the entries of the children of node j (nodes and tokens)
Children(tr, j) ==
    {c \in (j + 1)..(CloseOf(tr, j) - 1) :
        DepthBefore(tr, c) = tr[j].d /\ tr[c].t # "close"}

\* the entries of the tokens below node j
TokensOf(tr, j) == {c \in (j + 1)..(CloseOf(tr, j) - 1) : tr[c].t = "tok"}

\* the node that has entry c as a child (0 for the outermost node): the last
\* node opened before c at the depth c is at
ParentOf(tr, c) ==
    LET above == {j \in 1..(c - 1) : tr[j].t = "open" /\ tr[j].d = DepthBefore(tr, c)}
    IN IF above = {} THEN 0 ELSE CHOOSE j \in above : \A x \in above : x <= j

Leaves(tr) == SelectSeq(tr, LAMBDA e : e.t = "tok")

IsTrivia(tok) == tok.k \in TRIVIA

-----------------------------------------------------------------------------
(* C1 *)

\* C1: losslessness.  In the tree of every input the texts of the leaf tokens,
\* concatenated in document order, are the input, and the leaves are the input's
\* tokens in their order: none dropped, none twice, none out of place.
C1_Lossless ==
    phase = "built" =>
        LET leaves == Leaves(tree) IN
        /\ ConcatText(leaves) = ConcatText(tokens)
        /\ Len(leaves) = NTok
        /\ \A j \in 1..NTok : leaves[j].i = j /\ leaves[j].s = tokens[j].s

\* a malformed input with trivia, a diagnostic and an ERROR node has been built
C1_Witness ==
    /\ phase = "built"
    /\ errors # <<>>
    /\ Nodes(tree, "ERROR") # {}
    /\ \E j \in 1..NTok : IsTrivia(tokens[j])
    /\ NTok >= 8

-----------------------------------------------------------------------------
(* C2 *)

\* C2: parsing terminates.  No parse_many loop runs longer than the input has
\* tokens, and every iteration of root's loop either moves the cursor to a
\* later token or completes ROOT, after which only the tree is built.
C2_Terminates ==
    [][ /\ ~diverged'
        /\ (phase = "root" => (phase' = "parsed" \/ SkipTrivia(pos') > SkipTrivia(pos)))
        /\ (phase = "parsed" => phase' = "built") ]_vars

\* a parse has ended in which loops of three call sites were left because
\* their child parser did not move
C2_Witness ==
    /\ phase = "built"
    /\ Cardinality({st.site : st \in stalls}) >= 3
    /\ errors # <<>>

-----------------------------------------------------------------------------
(* C3 *)

\* C3: root returns only at the end of the input; the outermost node is
\* completed once, as ROOT, and every token of the input is below it.
C3_Root ==
    phase \in {"parsed", "built"} =>
        /\ pos = NTok + 1
        /\ events[1] = EvStart("ROOT", 0)
        /\ events[Len(events)] = EvFinish
        /\ Cardinality({j \in 1..Len(events) : events[j].t = "start" /\ events[j].k = "ROOT"}) = 1
        /\ Cardinality({j \in 1..Len(events) : events[j].t = "start"})
             = Cardinality({j \in 1..Len(events) : events[j].t = "finish"})
        /\ \A j \in 1..Len(events) : events[j].t # "ph"
        /\ phase = "built" =>
              /\ tree[1].t = "open" /\ tree[1].k = "ROOT"
              /\ CloseOf(tree, 1) = Len(tree)
              /\ {tree[c].i : c \in TokensOf(tree, 1)} = 1..NTok

\* root has returned from an input that made it wrap a token in an ERROR node
\* and that ends in trivia-free text after an element
C3_Witness ==
    /\ phase = "built"
    /\ NTok >= 6
    /\ \E j \in Nodes(tree, "ERROR") : ParentOf(tree, j) = 1
    /\ Nodes(tree, "HTML_TAG") # {}

-----------------------------------------------------------------------------
(* Reading the input: elements written as `<name>` ... `</name>` *)

\* the index of the n-th non-trivia token after the non-trivia token i
NextTok(i) == SkipTrivia(i + 1)

KindAt(i) == IF i >= 1 /\ i <= NTok THEN tokens[i].k ELSE "EOF"

\* a starting tag without attributes at token i: `<` name `>` or `<` name `/>`
IsOpener(i) ==
    /\ KindAt(i) = "<" /\ KindAt(i + 1) = "word" /\ KindAt(i + 2) \in {">", "/>"}

\* ... that has a body: closed by `>`, and not a void element
HasBody(i) ==
    IsOpener(i) /\ KindAt(i + 2) = ">" /\ tokens[i + 1].s \notin HTML_VOID_ELEMENTS

IsCloser(i) == KindAt(i) = "</" /\ KindAt(i + 1) = "word" /\ KindAt(i + 2) = ">"

\* `{% block name %}` at token i (with the whitespace the lexer sees)
IsBlockStart(i) ==
    /\ KindAt(i) = "{%" /\ KindAt(NextTok(i)) = "block"
    /\ KindAt(NextTok(NextTok(i))) = "word"
    /\ KindAt(NextTok(NextTok(NextTok(i)))) = "%}"

IsTermination(i) ==
    KindAt(i) = "{%" /\ KindAt(NextTok(i)) \in TWIG_TERMINATION_KEYWORDS

IsBlockEnd(i) ==
    /\ KindAt(i) = "{%" /\ KindAt(NextTok(i)) = "endblock"
    /\ KindAt(NextTok(NextTok(i))) = "%}"

Found(kind, idx) == [kind |-> kind, at |-> idx]

\* what the stack holds for an open block (no tag name: `%` is not in one)
BLOCK_MARK == <<"%">>

\* How the body that starts at token k of an element named name ends, reading
\* the input with a stack of the elements and blocks opened since:
\*   "closer"   at its own closing tag, everything opened in between closed
\*   "mismatch" at the closing tag of another element, nothing else open
\*   "cut"      at a Twig termination tag that no block of the body answers
\*   "end"      at the end of the input
\*   "other"    anything else
RECURSIVE BodyEnd(_, _, _)
BodyEnd(k, stack, name) ==
    IF k > NTok THEN Found("end", k)
    ELSE IF tokens[k].k \in {"ws", "lb", "word"} THEN BodyEnd(k + 1, stack, name)
    ELSE IF HasBody(k) THEN BodyEnd(k + 3, <<tokens[k + 1].s>> \o stack, name)
    ELSE IF IsOpener(k) THEN BodyEnd(k + 3, stack, name)
    ELSE IF IsCloser(k)
    THEN IF stack = <<>>
         THEN Found(IF tokens[k + 1].s = name THEN "closer" ELSE "mismatch", k)
         ELSE IF Head(stack) = tokens[k + 1].s THEN BodyEnd(k + 3, Tail(stack), name)
         ELSE Found("other", k)
    ELSE IF IsBlockStart(k)
    THEN BodyEnd(NextTok(NextTok(NextTok(k))) + 1, <<BLOCK_MARK>> \o stack, name)
    ELSE IF IsTermination(k)
    THEN IF \A x \in 1..Len(stack) : stack[x] # BLOCK_MARK THEN Found("cut", k)
         ELSE IF Head(stack) = BLOCK_MARK /\ IsBlockEnd(k)
         THEN BodyEnd(NextTok(NextTok(k)) + 1, Tail(stack), name)
         ELSE Found("other", k)
    ELSE Found("other", k)

\* how the body of the element opened at token i ends
EndOfElement(i) == BodyEnd(i + 3, <<>>, tokens[i + 1].s)

\* the tree entry of token i
EntryOf(tr, i) == CHOOSE c \in 1..Len(tr) : tr[c].t = "tok" /\ tr[c].i = i

\* token i was read as the `<` of a starting tag (it is not in a comment, an
\* attribute value or an ERROR node)
StartsElement(tr, i) ==
    LET st == ParentOf(tr, EntryOf(tr, i)) IN
    st # 0 /\ tr[st].k = "HTML_STARTING_TAG"

\* the HTML_TAG node whose starting tag begins with token i
ElementAt(tr, i) == ParentOf(tr, ParentOf(tr, EntryOf(tr, i)))

ChildNodes(tr, j, kind) ==
    {c \in Children(tr, j) : tr[c].t = "open" /\ tr[c].k = kind}

\* the input indices of the tokens below node j, trivia left out
TokenIndices(tr, j) ==
    {tr[c].i : c \in {x \in TokensOf(tr, j) : tr[x].k \notin TRIVIA}}

\* the name in the starting tag of the HTML_TAG node j (empty if there is none)
TagNameOf(tr, j) ==
    LET st == CHOOSE c \in Children(tr, j) : tr[c].k = "HTML_STARTING_TAG"
        names == {c \in Children(tr, st) : tr[c].t = "tok" /\ tr[c].k = "word"}
    IN IF names = {} THEN <<>>
       ELSE tr[CHOOSE c \in names : \A x \in names : c <= x].s

\* the starting tag of the HTML_TAG node j ends with `/>`
ClosedBySlash(tr, j) ==
    LET st == CHOOSE c \in Children(tr, j) : tr[c].k = "HTML_STARTING_TAG"
    IN \E c \in Children(tr, st) : tr[c].t = "tok" /\ tr[c].k = "/>"

-----------------------------------------------------------------------------
(* C4 *)

\* C4: an HTML_TAG node whose name is a void element or whose starting tag
\* ends with `/>` has the starting tag as its only child (no BODY, no
\* HTML_ENDING_TAG: what follows it in the input is a sibling); every other
\* HTML_TAG node has the starting tag, then one BODY, then one HTML_ENDING_TAG.
C4_VoidAndSelfClosing ==
    phase = "built" =>
        \A j \in Nodes(tree, "HTML_TAG") :
            LET kids == Children(tree, j)
                st == ChildNodes(tree, j, "HTML_STARTING_TAG")
                body == ChildNodes(tree, j, "BODY")
                ending == ChildNodes(tree, j, "HTML_ENDING_TAG")
            IN /\ Cardinality(st) = 1
               /\ IF TagNameOf(tree, j) \in HTML_VOID_ELEMENTS \/ ClosedBySlash(tree, j)
                  THEN kids = st
                  ELSE /\ Cardinality(body) = 1 /\ Cardinality(ending) = 1
                       /\ kids = st \cup body \cup ending
                       /\ \A a \in st, b \in body, e \in ending : a < b /\ b < e

\* `<input> hello</input>` has been parsed: the tree holds a void element
\* followed by text and a closing tag
C4_Witness ==
    /\ phase = "built"
    /\ tokens = <<LT, INPUT, GT, WS, HELLO, LTS, INPUT, GT>>
    /\ Cardinality(Nodes(tree, "HTML_TAG")) = 1
    /\ Nodes(tree, "HTML_TEXT") # {}

-----------------------------------------------------------------------------
(* C5 *)

-----------------------------------------------------------------------------
(* C6 *)

\* C6: when root has wrapped a `</` that closes no open element in an ERROR
\* node, the list of diagnostics is not empty.
C6_StrayClosingReported ==
    (/\ phase = "built"
     /\ \E j \in ChildNodes(tree, 1, "ERROR") :
           \E c \in TokensOf(tree, j) : tree[c].k = "</")
    => errors # <<>>

-----------------------------------------------------------------------------
(* C7 *)

MaxOf(S) == CHOOSE m \in S : \A x \in S : x <= m

MinOf(S) == CHOOSE m \in S : \A x \in S : m <= x

\* the token the parser is at when the body of the HTML_TAG node n is
\* complete: the first token, trivia skipped, after those of its starting tag
\* and its BODY
AfterBody(tr, n) ==
    LET inside == UNION {TokensOf(tr, c) : c \in ChildNodes(tr, n, "HTML_STARTING_TAG")
                                               \cup ChildNodes(tr, n, "BODY")}
    IN SkipTrivia(MaxOf({tr[c].i : c \in inside}) + 1)

\* the HTML_TAG nodes with a body that ends at the Twig termination tag q
CutAt(tr, q) ==
    {n \in Nodes(tr, "HTML_TAG") :
        ChildNodes(tr, n, "BODY") # {} /\ IsTermination(q) /\ AfterBody(tr, n) = q}

\* the nearest TWIG_BLOCK node around entry c, 0 if there is none
RECURSIVE EnclosingBlock(_, _)
EnclosingBlock(tr, c) ==
    LET up == ParentOf(tr, c) IN
    IF up = 0 THEN 0
    ELSE IF tr[up].k = "TWIG_BLOCK" THEN up
    ELSE EnclosingBlock(tr, up)

\* C7: an element whose body runs into a Twig termination tag that no block
\* of the body answers ends its body there.  Such an element has an
\* HTML_ENDING_TAG without tokens and does not hold the termination tag; one
\* diagnostic `</tag_name> ending tag` is recorded at the termination tag for
\* each such element; and when a Twig block encloses the element, the
\* termination tag is in the TWIG_ENDING_BLOCK of the nearest one.
C7_CutByTermination ==
    phase = "built" =>
        /\ \A i \in 1..NTok :
              (HasBody(i) /\ StartsElement(tree, i) /\ EndOfElement(i).kind = "cut") =>
                  ElementAt(tree, i) \in CutAt(tree, EndOfElement(i).at)
        /\ \A q \in 1..NTok : \A n \in CutAt(tree, q) :
               LET name == TagNameOf(tree, n)
                   block == EnclosingBlock(tree, n)
                   taker == ParentOf(tree, EntryOf(tree, q))
               IN /\ \A e \in ChildNodes(tree, n, "HTML_ENDING_TAG") : TokensOf(tree, e) = {}
                  /\ ChildNodes(tree, n, "HTML_ENDING_TAG") # {}
                  /\ q \notin {tree[c].i : c \in TokensOf(tree, n)}
                  /\ Cardinality({x \in 1..Len(errors) : errors[x] = Diag(q, "ending tag", name)})
                       = Cardinality({m \in CutAt(tree, q) : TagNameOf(tree, m) = name})
                  /\ \A x \in 1..Len(errors) :
                        (errors[x].at = q /\ errors[x].exp = "ending tag") =>
                           \E m \in CutAt(tree, q) : TagNameOf(tree, m) = errors[x].name
                  /\ block # 0 =>
                        /\ tree[taker].k = "TWIG_ENDING_BLOCK"
                        /\ ParentOf(tree, taker) = block

\* `{% block a %}<div> hello{% endblock %}` has been parsed: the element is
\* cut by the termination tag, which ends the block
C7_Witness ==
    /\ phase = "built"
    /\ tokens = <<OPEN_BLOCK, WS, BLOCK, WS, NAME, WS, CLOSE_BLOCK, LT, DIV, GT,
                  WS, HELLO, OPEN_BLOCK, WS, ENDBLOCK, WS, CLOSE_BLOCK>>
    /\ CutAt(tree, 13) # {}
    /\ errors = <<Diag(13, "ending tag", DIV.s)>>

-----------------------------------------------------------------------------
(* C8 *)

\* `<div> hello<span> hello</div>`
MissingInnerClose ==
    <<LT, DIV, GT, WS, HELLO, LT, SPAN, GT, WS, HELLO, LTS, DIV, GT>>

\* the element opened at token i has a balanced body that runs into the
\* closing tag, at token k, of the element it is a child of
RunsIntoParentClose(tr, i, k) ==
    /\ HasBody(i) /\ StartsElement(tr, i)
    /\ EndOfElement(i) = Found("mismatch", k)
    /\ LET body == ParentOf(tr, ElementAt(tr, i))
           parent == ParentOf(tr, body)
       IN /\ body # 0 /\ tr[body].k = "BODY"
          /\ parent # 0 /\ tr[parent].k = "HTML_TAG"
          /\ TagNameOf(tr, parent) = tokens[k + 1].s

\* the kinds of token at which recovery stops
RECOVERY_ANCHORS == {"{%", "{{", "{#", "<", "<!--", "<!"}

\* the first token after k of a kind in RECOVERY_ANCHORS, the end of the
\* input if there is none
NextAnchor(k) ==
    LET later == {x \in (k + 1)..NTok : tokens[x].k \in RECOVERY_ANCHORS}
    IN IF later = {} THEN NTok + 1 ELSE MinOf(later)

\* C8 as stated: the inner element has an HTML_ENDING_TAG without tokens, the
\* closing tag of the parent is not below the inner element, and one
\* diagnostic is recorded for it (the only one for `<div>hello<span>world!</div>`)
C8_InnerEndingTagEmpty ==
    phase = "built" =>
        /\ \A i, k \in 1..NTok : RunsIntoParentClose(tree, i, k) =>
              LET n == ElementAt(tree, i) IN
              /\ \A e \in ChildNodes(tree, n, "HTML_ENDING_TAG") : TokensOf(tree, e) = {}
              /\ {k, k + 1, k + 2} \cap {tree[c].i : c \in TokensOf(tree, n)} = {}
              /\ Cardinality({x \in 1..Len(errors) :
                                 errors[x] = Diag(k, "ending tag", tokens[i + 1].s)}) = 1
        /\ tokens = MissingInnerClose => Len(errors) = 1

\* C8, amended: the HTML_ENDING_TAG of the inner element holds one ERROR node
\* with the closing tag of the parent and the tokens after it up to the next
\* recovery anchor or the end of the input; the one diagnostic recorded at
\* the closing tag is `</name> ending tag` for the inner element.  For
\* `<div>hello<span>world!</div>` the parent is left without closing tag: a
\* second diagnostic is recorded for it at the end of the input.
C8_InnerTakesParentClose ==
    phase = "built" =>
        /\ \A i, k \in 1..NTok : RunsIntoParentClose(tree, i, k) =>
              LET n == ElementAt(tree, i)
                  ending == ChildNodes(tree, n, "HTML_ENDING_TAG")
              IN /\ Cardinality(ending) = 1
                 /\ \A e \in ending :
                       /\ Cardinality(Children(tree, e)) = 1
                       /\ \A r \in Children(tree, e) :
                             /\ tree[r].t = "open" /\ tree[r].k = "ERROR"
                             /\ TokenIndices(tree, r) =
                                  {x \in k..(NextAnchor(k) - 1) : tokens[x].k \notin TRIVIA}
                 /\ \A x \in 1..Len(errors) :
                       errors[x].at = k => errors[x] = Diag(k, "ending tag", tokens[i + 1].s)
                 /\ Cardinality({x \in 1..Len(errors) : errors[x].at = k}) = 1
        /\ tokens = MissingInnerClose =>
              /\ errors = <<Diag(11, "ending tag", SPAN.s), Diag(14, "ending tag", DIV.s)>>
              /\ \A e \in ChildNodes(tree, ElementAt(tree, 1), "HTML_ENDING_TAG") :
                    TokensOf(tree, e) = {}

\* `<div> hello<span> hello</div>` has been parsed
C8_Witness ==
    /\ phase = "built"
    /\ tokens = MissingInnerClose
    /\ RunsIntoParentClose(tree, 6, 11)
    /\ Nodes(tree, "ERROR") # {}

-----------------------------------------------------------------------------
(* C9 *)

\* the tokens below the ERROR nodes of the tree, trivia left out
ErrorTokens(tr) == UNION {TokenIndices(tr, r) : r \in Nodes(tr, "ERROR")}

\* the first token of a kind in anchors, the end of the input if there is none
FirstOf(anchors) ==
    LET there == {x \in 1..NTok : tokens[x].k \in anchors}
    IN IF there = {} THEN NTok + 1 ELSE MinOf(there)

\* the tokens before the first one of a kind in anchors are in one ERROR
\* node (in none if there is no such token), and no other token is in one
WrappedUpTo(anchors) ==
    LET before == {x \in 1..(FirstOf(anchors) - 1) : tokens[x].k \notin TRIVIA}
    IN /\ ErrorTokens(tree) = before
       /\ Cardinality(Nodes(tree, "ERROR")) = IF before = {} THEN 0 ELSE 1
       /\ \A x \in ErrorTokens(tree) : tokens[x].k \notin anchors

\* the kinds C9 gives for GENERAL_RECOVERY_SET
CLAIMED_ANCHORS == {"{%", "{{", "{#", "<", "</", "<!", "<!--"}

\* C9 as stated: recover(until_set) wraps in one ERROR node the tokens before
\* the next token of a kind in until_set or in {`{%`, `{{`, `{#`, `<`, `</`,
\* `<!`, `<!--`}, or the end of the input, and so none of a kind of these
\* is in an ERROR node recover made.
C9_StopsAtClaimedAnchors ==
    phase = "built" => WrappedUpTo(given \cup CLAIMED_ANCHORS)

\* C9, amended: recover(until_set) wraps in one ERROR node the tokens before
\* the next token of a kind in until_set or in {`{%`, `{{`, `{#`, `<`, `<!`,
\* `<!--`}, or the end of the input; none of a kind of these is in an ERROR
\* node recover made, and a `</` is in it whenever until_set does not hold
\* `</` and recover meets it before one of them.
C9_StopsAtAnchors ==
    phase = "built" =>
        /\ WrappedUpTo(given \cup RECOVERY_ANCHORS)
        /\ \A x \in 1..(FirstOf(given \cup RECOVERY_ANCHORS) - 1) :
               tokens[x].k = "</" => x \in ErrorTokens(tree)

\* recover(&[]) was called at `> </ <`: `>` and `</` are in the ERROR node
C9_Witness ==
    /\ phase = "built"
    /\ tokens = <<GT, LTS, LT>>
    /\ given = {}
    /\ ErrorTokens(tree) = {1, 2}

-----------------------------------------------------------------------------
(* C10 *)

\* what the child parser of the call leaves when it is called now
Child == one(given.site, given.ctx, Pm)

\* the loop is at a token where the early exit closure does not hold and the
\* child parser returns without moving the cursor
Stalled ==
    /\ phase = "loop"
    /\ ~at_end(Pm)
    /\ ~until(given.site, given.ctx, Pm).hold
    /\ peek(Child) = peek(Pm)

\* C10 as stated: when an iteration of the child parser neither moves the
\* cursor nor makes the early exit closure hold, parse_many puts one token
\* into an ERROR node and the loop goes on, at every call site.
C10_ConsumesOneTokenAndContinues ==
    [][Stalled =>
          /\ phase' = "loop"
          /\ pos' = token_into_error(Child).pos
          /\ events' = token_into_error(Child).ev]_vars

\* C10, amended: when an iteration of the child parser neither moves the
\* cursor nor makes the early exit closure hold, parse_many leaves the loop
\* with that token unconsumed and puts no token into an ERROR node; the loop
\* is left in this case, at the end of the input and when the early exit
\* closure holds, and in no other, at every call site.
C10_LeavesTheLoop ==
    [][/\ Stalled =>
             /\ phase' = "returned"
             /\ pos' = Child.pos
             /\ events' = Child.ev
             /\ errors' = Child.err
       /\ (phase = "loop" /\ phase' = "returned") =>
             \/ at_end(Pm)
             \/ until(given.site, given.ctx, Pm).hold
             \/ Stalled]_vars

\* the postfix loop was left at a token that is not consumed: `a }}`
C10_Witness ==
    /\ phase = "returned"
    /\ given.site = "postfix"
    /\ tokens = <<WS, NAME, WS, CLOSE_VAR>>
    /\ peek(Pm) = 4
    /\ Stall("postfix", 4) \in stalls

-----------------------------------------------------------------------------
(* C11 *)

\* the child of the parent of entry c that follows c (0 if c is the last)
NextSibling(tr, c) ==
    LET later == {x \in Children(tr, ParentOf(tr, c)) : x > c}
    IN IF later = {} THEN 0 ELSE MinOf(later)

\* the child that precedes c (0 if c is the first)
PrevSibling(tr, c) ==
    LET earlier == {x \in Children(tr, ParentOf(tr, c)) : x < c}
    IN IF earlier = {} THEN 0 ELSE MaxOf(earlier)

\* the `=` tokens of the attributes
ValueSigns(tr) ==
    {c \in 1..Len(tr) : /\ tr[c].t = "tok" /\ tr[c].k = "="
                        /\ ParentOf(tr, c) # 0
                        /\ tr[ParentOf(tr, c)].k = "HTML_ATTRIBUTE"}

\* the tokens that are children of node j, trivia left out
OwnTokens(tr, j) == {c \in Children(tr, j) : tr[c].t = "tok" /\ tr[c].k \notin TRIVIA}

QUOTES == {"\"", "'"}

InnerOf(tr, v) == CHOOSE c \in ChildNodes(tr, v, "HTML_STRING_INNER") : TRUE

\* the quote that opens the HTML_STRING node v ("" if it starts without one)
OpeningQuote(tr, v) ==
    LET before == {c \in OwnTokens(tr, v) : c < InnerOf(tr, v)}
    IN IF before = {} THEN "" ELSE tr[MinOf(before)].k

-----------------------------------------------------------------------------
(* C12 *)

\* the closing quote of the string v whose inner node has the kind inner_kind:
\* the quote that is a child of v after the inner node, 0 if there is none
ClosingQuote(tr, v, inner_kind) ==
    LET after == {c \in OwnTokens(tr, v) :
                     \E j \in ChildNodes(tr, v, inner_kind) : c > j}
    IN IF after = {} THEN 0 ELSE MinOf(after)

\* the strings of the two languages and their inner nodes
STRING_KINDS ==
    { <<"HTML_STRING", "HTML_STRING_INNER">>,
      <<"TWIG_LITERAL_STRING", "TWIG_LITERAL_STRING_INNER">> }

\* the trivia tokens that the input has immediately before the token entry q
TriviaBefore(tr, q) ==
    {c \in 1..Len(tr) : /\ tr[c].t = "tok" /\ tr[c].i = tr[q].i - 1
                        /\ IsTrivia(tr[c])}

\* C12: in a quoted HTML attribute value and in a Twig string literal, trivia
\* immediately before the closing quote is a child of the inner node
\* (HTML_STRING_INNER, TWIG_LITERAL_STRING_INNER), so the inner node ends
\* directly before the closing quote and the quote has no leading trivia; the
\* inner node of an unquoted HTML attribute value does not end with trivia.
C12_TrailingTrivia ==
    phase = "built" =>
        /\ \A sk \in STRING_KINDS : \A v \in Nodes(tree, sk[1]) :
              LET q == ClosingQuote(tree, v, sk[2])
              IN q # 0 =>
                    /\ tree[q - 1].t = "close"
                    /\ \A c \in TriviaBefore(tree, q) :
                          /\ tree[ParentOf(tree, c)].k = sk[2]
                          /\ ParentOf(tree, ParentOf(tree, c)) = v
                          /\ CloseOf(tree, ParentOf(tree, c)) = q - 1
        /\ \A v \in Nodes(tree, "HTML_STRING") :
              OpeningQuote(tree, v) = "" =>
                    LET last == CloseOf(tree, InnerOf(tree, v)) - 1
                    IN ~(tree[last].t = "tok" /\ IsTrivia(tree[last]))

\* <div a='{{ "a " }} ': both strings are closed after whitespace
C12_Witness ==
    /\ phase = "built"
    /\ tokens = <<LT, DIV, WS, NAME, EQ, SQ, OPEN_VAR, WS, DQ, WS, NAME, WS, DQ,
                  WS, CLOSE_VAR, WS, SQ>>
    /\ \A sk \in STRING_KINDS : \E v \in Nodes(tree, sk[1]) :
          /\ ClosingQuote(tree, v, sk[2]) # 0
          /\ TriviaBefore(tree, ClosingQuote(tree, v, sk[2])) # {}
-----------------------------------------------------------------------------
(* C13 *)

\* the first token after the entry c that is no trivia, 0 if there is none
NextToken(tr, c) ==
    LET later == {x \in (c + 1)..Len(tr) : tr[x].t = "tok" /\ ~IsTrivia(tr[x])}
    IN IF later = {} THEN 0 ELSE MinOf(later)

STRAY_QUOTE == "no trailing quote because there is no leading quote"

\* the unquoted values that are followed by a quote, with that quote
StrayQuotes(tr) ==
    {<<v, NextToken(tr, CloseOf(tr, InnerOf(tr, v)))>> :
        v \in {w \in Nodes(tr, "HTML_STRING") :
                  /\ OpeningQuote(tr, w) = ""
                  /\ NextToken(tr, CloseOf(tr, InnerOf(tr, w))) # 0
                  /\ tr[NextToken(tr, CloseOf(tr, InnerOf(tr, w)))].k \in QUOTES}}

\* C13: a quote that follows an HTML attribute value without an opening quote
\* is the only token of an ERROR node that is the last child of the
\* HTML_STRING, after HTML_STRING_INNER; exactly one diagnostic is recorded at
\* that quote, `no trailing quote because there is no leading quote`; a word
\* that follows is parsed as the next attribute of the same attribute list,
\* without a diagnostic.
C13_StrayQuote ==
    phase = "built" =>
        \A vq \in StrayQuotes(tree) :
            LET v == vq[1]
                q == vq[2]
                e == ParentOf(tree, q)
                a == ParentOf(tree, v)
                n == NextToken(tree, q)
            IN /\ tree[e].k = "ERROR"
               /\ ParentOf(tree, e) = v
               /\ e = CloseOf(tree, InnerOf(tree, v)) + 1
               /\ {c \in TokensOf(tree, e) : ~IsTrivia(tree[c])} = {q}
               /\ CloseOf(tree, v) = CloseOf(tree, e) + 1
               /\ Cardinality({x \in 1..Len(errors) : errors[x].at = tree[q].i}) = 1
               /\ \A x \in 1..Len(errors) :
                     (errors[x].at = tree[q].i \/ errors[x].exp = STRAY_QUOTE) =>
                        /\ errors[x] = Diag(tree[q].i, STRAY_QUOTE, <<>>)
                        /\ \E wr \in StrayQuotes(tree) : tree[wr[2]].i = errors[x].at
               /\ (n # 0 /\ tree[n].k = "word") =>
                     /\ tree[ParentOf(tree, n)].k = "HTML_ATTRIBUTE"
                     /\ ParentOf(tree, n) = CloseOf(tree, a) + 1
                     /\ ParentOf(tree, ParentOf(tree, n)) = ParentOf(tree, a)
                     /\ \A x \in 1..Len(errors) : errors[x].at # tree[n].i

\* <div a= a" a>: the quote is wrapped and the next attribute is parsed
C13_Witness ==
    /\ phase = "built"
    /\ tokens = <<LT, DIV, WS, NAME, EQ, WS, NAME, DQ, WS, NAME, GT>>
    /\ Cardinality(StrayQuotes(tree)) = 1
    /\ Cardinality(Nodes(tree, "HTML_ATTRIBUTE")) = 2
    /\ \E x \in 1..Len(errors) : errors[x] = Diag(8, STRAY_QUOTE, <<>>)
-----------------------------------------------------------------------------
(* C14 *)

\* where the recovery of an unquoted value stops
VALUE_RECOVERY == {"word", ">", "/>"} \cup RECOVERY_ANCHORS

\* the first token at or after the input index i that stops the recovery
ValueStop(i) ==
    LET there == {x \in i..NTok : tokens[x].k \in VALUE_RECOVERY}
    IN IF there = {} THEN NTok + 1 ELSE MinOf(there)

\* the input indices of the tokens below the node j that are no trivia
InputTokens(tr, j) == {tr[c].i : c \in {x \in TokensOf(tr, j) : ~IsTrivia(tr[x])}}

ChildNodesOf(tr, j) == {c \in Children(tr, j) : tr[c].t = "open"}

\* C14: after the `=` of an attribute there is an HTML_STRING with an
\* HTML_STRING_INNER. Without an opening quote the inner node holds exactly
\* one word token, or exactly one TWIG_VAR when `{{` follows; if anything else
\* follows the `=`, one diagnostic `html attribute value` is recorded at it,
\* the tokens before the next word, `>`, `/>` or general recovery anchor are
\* wrapped in one ERROR node inside the inner node, and nothing else is.
C14_UnquotedValue ==
    phase = "built" =>
        \A c \in ValueSigns(tree) :
            LET v == NextSibling(tree, c)
                t == SkipTrivia(tree[c].i + 1)
            IN /\ v # 0 /\ tree[v].k = "HTML_STRING"
               /\ ChildNodes(tree, v, "HTML_STRING_INNER") # {}
               /\ OpeningQuote(tree, v) = "" =>
                     LET inner == InnerOf(tree, v) IN
                     CASE t <= NTok /\ tokens[t].k = "word" ->
                              /\ InputTokens(tree, inner) = {t}
                              /\ ChildNodesOf(tree, inner) = {}
                              /\ \A x \in 1..Len(errors) : errors[x].at # t
                       [] t <= NTok /\ tokens[t].k = "{{" ->
                              /\ OwnTokens(tree, inner) = {}
                              /\ Cardinality(ChildNodesOf(tree, inner)) = 1
                              /\ \A n \in ChildNodesOf(tree, inner) :
                                    /\ tree[n].k = "TWIG_VAR"
                                    /\ t \in InputTokens(tree, n)
                       [] OTHER ->
                              /\ Cardinality({x \in 1..Len(errors) :
                                     errors[x] = Diag(t, "html attribute value", <<>>)}) = 1
                              /\ InputTokens(tree, inner) =
                                     {x \in t..(ValueStop(t) - 1) : tokens[x].k \notin TRIVIA}
                              /\ OwnTokens(tree, inner) = {}
                              /\ \A n \in ChildNodesOf(tree, inner) : tree[n].k = "ERROR"
                              /\ Cardinality(ChildNodesOf(tree, inner)) =
                                     IF ValueStop(t) = t THEN 0 ELSE 1

\* <div a== a>: the second `=` is no value; it is wrapped and `a` is the next
\* attribute
C14_Witness ==
    /\ phase = "built"
    /\ tokens = <<LT, DIV, WS, NAME, EQ, EQ, WS, NAME, GT>>
    /\ \E x \in 1..Len(errors) : errors[x] = Diag(6, "html attribute value", <<>>)
    /\ \E v \in Nodes(tree, "HTML_STRING") :
          /\ InputTokens(tree, InnerOf(tree, v)) = {6}
          /\ Cardinality(ChildNodes(tree, InnerOf(tree, v), "ERROR")) = 1
    /\ Cardinality(Nodes(tree, "HTML_ATTRIBUTE")) = 2
-----------------------------------------------------------------------------
(* C15 *)

NO_INTERPOLATION == "no string interpolation, because it isn't allowed here"

\* the opening quote of the Twig string v: its first token
StringQuote(tr, v) == tr[MinOf(OwnTokens(tr, v))].k

TwigInnerOf(tr, v) == CHOOSE c \in ChildNodes(tr, v, "TWIG_LITERAL_STRING_INNER") : TRUE

\* the string v is the key of a hash pair
IsHashKeyString(tr, v) ==
    ParentOf(tr, v) # 0 /\ tr[ParentOf(tr, v)].k = "TWIG_LITERAL_HASH_KEY"

\* double-quoted and no hash key
MayInterpolate(tr, v) == StringQuote(tr, v) = "\"" /\ ~IsHashKeyString(tr, v)

\* the `#{` tokens that are content of the string v
ContentMarks(tr, v) == {c \in OwnTokens(tr, TwigInnerOf(tr, v)) : tr[c].k = "#{"}

\* C15: a TWIG_LITERAL_STRING_INTERPOLATION node begins with `#{` and lies in
\* the inner node of a double-quoted string that is no hash key, and in such a
\* string no `#{` is string content; in a single-quoted string and in a
\* hash-key string of either quote kind there is no interpolation node, every
\* `#{` is content of the inner node, and exactly one diagnostic, `no string
\* interpolation, because it isn't allowed here`, lies at each such token and
\* nowhere else.
C15_Interpolation ==
    phase = "built" =>
        /\ \A n \in Nodes(tree, "TWIG_LITERAL_STRING_INTERPOLATION") :
              LET inner == ParentOf(tree, n)
              IN /\ inner # 0 /\ tree[inner].k = "TWIG_LITERAL_STRING_INNER"
                 /\ tree[ParentOf(tree, inner)].k = "TWIG_LITERAL_STRING"
                 /\ MayInterpolate(tree, ParentOf(tree, inner))
                 /\ tree[MinOf(OwnTokens(tree, n))].k = "#{"
                 /\ \A x \in 1..Len(errors) :
                       errors[x].at = tree[MinOf(OwnTokens(tree, n))].i =>
                          errors[x].exp # NO_INTERPOLATION
        /\ \A v \in Nodes(tree, "TWIG_LITERAL_STRING") :
              IF MayInterpolate(tree, v) THEN ContentMarks(tree, v) = {}
              ELSE /\ ChildNodes(tree, TwigInnerOf(tree, v),
                                 "TWIG_LITERAL_STRING_INTERPOLATION") = {}
                   /\ \A c \in ContentMarks(tree, v) :
                         /\ Cardinality({x \in 1..Len(errors) :
                                           errors[x].at = tree[c].i}) = 1
                         /\ \E x \in 1..Len(errors) :
                               errors[x] = Diag(tree[c].i, NO_INTERPOLATION, <<>>)
        /\ \A x \in 1..Len(errors) :
              errors[x].exp = NO_INTERPOLATION =>
                 \E v \in Nodes(tree, "TWIG_LITERAL_STRING") :
                    /\ ~MayInterpolate(tree, v)
                    /\ \E c \in ContentMarks(tree, v) : tree[c].i = errors[x].at

\* {{ " #{' #{: an interpolation in the double-quoted string, and in it a
\* single-quoted string with `#{` as content
C15_Witness ==
    /\ phase = "built"
    /\ tokens = <<OPEN_VAR, WS, DQ, WS, HASH_BRACE, SQ, WS, HASH_BRACE>>
    /\ Cardinality(Nodes(tree, "TWIG_LITERAL_STRING_INTERPOLATION")) = 1
    /\ \E v \in Nodes(tree, "TWIG_LITERAL_STRING") :
          /\ StringQuote(tree, v) = "'"
          /\ Cardinality(ContentMarks(tree, v)) = 1
    /\ \E x \in 1..Len(errors) : errors[x] = Diag(8, NO_INTERPOLATION, <<>>)
-----------------------------------------------------------------------------
(* C16 *)

\* the input index of the last token before i that is no trivia, 0 if none
PrevInput(i) ==
    LET earlier == {x \in 1..(i - 1) : tokens[x].k \notin TRIVIA}
    IN IF earlier = {} THEN 0 ELSE MaxOf(earlier)

\* the content tokens of the Twig string v of the kind k
ContentOf(tr, v, k) == {c \in OwnTokens(tr, TwigInnerOf(tr, v)) : tr[c].k = k}

\* C16: in a Twig string a backslash that is followed by the quote of the
\* string is content of TWIG_LITERAL_STRING_INNER together with that quote, and
\* a quote of the string's kind is content only after such a backslash; the
\* closing quote has the kind of the opening quote and follows no content
\* backslash; a string without a closing quote is not followed by a quote of
\* its kind.
C16_Escape ==
    phase = "built" =>
        \A v \in Nodes(tree, "TWIG_LITERAL_STRING") :
            LET qk == StringQuote(tree, v)
                close == ClosingQuote(tree, v, "TWIG_LITERAL_STRING_INNER")
                after == NextToken(tree, CloseOf(tree, TwigInnerOf(tree, v)))
            IN /\ qk \in QUOTES
               /\ \A b \in ContentOf(tree, v, "\\") :
                     LET n == SkipTrivia(tree[b].i + 1)
                     IN (n <= NTok /\ tokens[n].k = qk) =>
                           \E c \in ContentOf(tree, v, qk) : tree[c].i = n
               /\ \A c \in ContentOf(tree, v, qk) :
                     \E b \in ContentOf(tree, v, "\\") : tree[b].i = PrevInput(tree[c].i)
               /\ close # 0 =>
                     /\ tree[close].k = qk
                     /\ close = after
                     /\ \A b \in ContentOf(tree, v, "\\") :
                           tree[b].i # PrevInput(tree[close].i)
               /\ close = 0 => (after = 0 \/ tree[after].k # qk)

\* {{ "\" ": the escaped quote is content, the next quote closes the string
C16_Witness ==
    /\ phase = "built"
    /\ tokens = <<OPEN_VAR, WS, DQ, BACKSLASH, DQ, WS, DQ>>
    /\ \E v \in Nodes(tree, "TWIG_LITERAL_STRING") :
          /\ Cardinality(ContentOf(tree, v, "\\")) = 1
          /\ Cardinality(ContentOf(tree, v, "\"")) = 1
          /\ ClosingQuote(tree, v, "TWIG_LITERAL_STRING_INNER") # 0
          /\ tree[ClosingQuote(tree, v, "TWIG_LITERAL_STRING_INNER")].i = 7
-----------------------------------------------------------------------------
(* C17 *)

WRAPPERS == {"TWIG_ACCESSOR", "TWIG_INDEX_LOOKUP", "TWIG_FUNCTION_CALL", "TWIG_FILTER"}

\* the token that begins the operation of a wrapper node of the kind k
OperatorKind(k) ==
    CASE k = "TWIG_ACCESSOR" -> "."
      [] k = "TWIG_INDEX_LOOKUP" -> "["
      [] k = "TWIG_FUNCTION_CALL" -> "("
      [] k = "TWIG_FILTER" -> "|"

Wrappers(tr) == {j \in 1..Len(tr) : tr[j].t = "open" /\ tr[j].k \in WRAPPERS}

FirstChild(tr, j) == MinOf(Children(tr, j))

\* the first token of the wrapper w that is its own and no trivia
OperatorOf(tr, w) == MinOf(OwnTokens(tr, w))

\* the wrappers of the chain of w: those that begin with the same token as w
ChainOf(tr, w) ==
    {x \in Wrappers(tr) : MinOf(TokensOf(tr, x)) = MinOf(TokensOf(tr, w))}

\* entry c is below node j
Below(tr, c, j) == j < c /\ c < CloseOf(tr, j)

\* C17: postfix operations nest left to right in source order.  Every
\* TWIG_ACCESSOR, TWIG_INDEX_LOOKUP, TWIG_FUNCTION_CALL and TWIG_FILTER has a
\* TWIG_OPERAND as its first child, followed (after trivia at most) by the
\* operator token of its kind; the operand holds one node, and every wrapper of
\* the same chain whose operator stands earlier in the source is below that
\* operand, so that the wrapper of a later operation encloses the wrappers of
\* the earlier ones and the outermost is the last; filters come after the
\* accessors, indexers and calls of their chain.
C17_PostfixNesting ==
    phase = "built" =>
        \A w \in Wrappers(tree) :
            LET o == FirstChild(tree, w) IN
            /\ tree[o].t = "open" /\ tree[o].k = "TWIG_OPERAND"
            /\ OwnTokens(tree, w) # {}
            /\ tree[OperatorOf(tree, w)].k = OperatorKind(tree[w].k)
            /\ CloseOf(tree, o) < OperatorOf(tree, w)
            /\ \A c \in (CloseOf(tree, o) + 1)..(OperatorOf(tree, w) - 1) :
                   tree[c].t = "tok" /\ IsTrivia(tree[c])
            /\ Cardinality(ChildNodesOf(tree, o)) = 1
            /\ \A x \in ChainOf(tree, w) \ {w} :
                   /\ Below(tree, x, w) <=> OperatorOf(tree, x) < OperatorOf(tree, w)
                   /\ Below(tree, x, w) => Below(tree, x, o)
                   /\ Below(tree, w, x) \/ Below(tree, x, w)
                   /\ tree[x].k = "TWIG_FILTER" /\ tree[w].k # "TWIG_FILTER"
                        => Below(tree, w, x)

\* `a.a[0] | a` has been built without a diagnostic: a filter over an index
\* lookup over an accessor, each the only node of the operand of the next
C17_Witness ==
    /\ phase = "built"
    /\ errors = <<>>
    /\ \E f \in Nodes(tree, "TWIG_FILTER") :
       \E x \in Nodes(tree, "TWIG_INDEX_LOOKUP") :
       \E a \in Nodes(tree, "TWIG_ACCESSOR") :
           /\ ChildNodesOf(tree, FirstChild(tree, f)) = {x}
           /\ ChildNodesOf(tree, FirstChild(tree, x)) = {a}
           /\ tree[ParentOf(tree, f)].k = "TWIG_EXPRESSION"
           /\ tree[OperatorOf(tree, a)].i < tree[OperatorOf(tree, x)].i
           /\ tree[OperatorOf(tree, x)].i < tree[OperatorOf(tree, f)].i
-----------------------------------------------------------------------------
(* C18 *)

INDEX_KINDS == {"TWIG_INDEX", "TWIG_INDEX_RANGE"}

\* the nodes between the brackets of the lookup w
IndexNodes(tr, w) == {c \in ChildNodesOf(tr, w) : tr[c].k \in INDEX_KINDS}

IndexOf(tr, w) == CHOOSE n \in IndexNodes(tr, w) : TRUE

\* the colons the indexer took: the `:` tokens that are the index node's own
Colons(tr, n) == {c \in OwnTokens(tr, n) : tr[c].k = ":"}

\* the four forms, with a number for each expression
INDEX_FORMS ==
    { <<NUMBER>>, <<COLON, NUMBER>>, <<NUMBER, COLON>>, <<NUMBER, COLON, NUMBER>> }

\* the input goes on with the tokens f after its token i
InputAfter(i, f) == i + Len(f) <= NTok /\ SubSeq(tokens, i + 1, i + Len(f)) = f

-----------------------------------------------------------------------------
(* C20 *)

\* the nodes that hold the parentheses of a call: a TWIG_FUNCTION_CALL, and the
\* right operand of a TWIG_FILTER
ArgumentHolders(tr) ==
    Nodes(tr, "TWIG_FUNCTION_CALL")
      \cup {o \in Nodes(tr, "TWIG_OPERAND") :
              /\ ParentOf(tr, o) # 0
              /\ tr[ParentOf(tr, o)].k = "TWIG_FILTER"
              /\ o # FirstChild(tr, ParentOf(tr, o))}

OwnOf(tr, j, k) == {c \in OwnTokens(tr, j) : tr[c].k = k}

\* the first token below node j that is no trivia (0 if there is none)
FirstToken(tr, j) ==
    LET own == {c \in TokensOf(tr, j) : ~IsTrivia(tr[c])}
    IN IF own = {} THEN 0 ELSE MinOf(own)

\* entry c is a word token and the next token of the input, trivia skipped, is `=`
WordThenEqual(tr, c) ==
    /\ c # 0
    /\ tr[c].k = "word"
    /\ NextToken(tr, c) # 0
    /\ tr[NextToken(tr, c)].k = "="

\* C20: arguments.  A TWIG_FUNCTION_CALL has one `(` of its own and the right
\* operand of a TWIG_FILTER has one or none; each such `(` is directly followed
\* by a TWIG_ARGUMENTS node, there is no other TWIG_ARGUMENTS node, and it is
\* there and empty when `)` follows `(` at once; a `)` of the call stands after
\* the TWIG_ARGUMENTS node.  The children of TWIG_ARGUMENTS are `,` tokens,
\* TWIG_NAMED_ARGUMENT nodes and TWIG_EXPRESSION nodes; a child node is a
\* TWIG_NAMED_ARGUMENT exactly when its first token is a word that is followed,
\* trivia skipped, by `=`; a word followed by `=` at the start of the arguments or
\* after a `,` of them begins a TWIG_NAMED_ARGUMENT whatever stands before; and a
\* `,` that follows an argument is a child of the same TWIG_ARGUMENTS.
C20_Arguments ==
    phase = "built" =>
        /\ \A h \in ArgumentHolders(tree) :
               LET opening == OwnOf(tree, h, "(")
                   args == ChildNodes(tree, h, "TWIG_ARGUMENTS") IN
               /\ Cardinality(opening) <= 1
               /\ tree[h].k = "TWIG_FUNCTION_CALL" => Cardinality(opening) = 1
               /\ Cardinality(args) = Cardinality(opening)
               /\ \A b \in opening :
                      /\ NextSibling(tree, b) \in args
                      /\ InputAfter(tree[b].i, <<RPAREN>>) =>
                            /\ Children(tree, NextSibling(tree, b)) = {}
                            /\ \E c \in OwnOf(tree, h, ")") : tree[c].i = tree[b].i + 1
               /\ \A c \in OwnOf(tree, h, ")") :
                      \E a \in args :
                          /\ CloseOf(tree, a) < c
                          /\ \A x \in (CloseOf(tree, a) + 1)..(c - 1) :
                                 tree[x].t = "tok" /\ IsTrivia(tree[x])
        /\ \A a \in Nodes(tree, "TWIG_ARGUMENTS") :
               /\ ParentOf(tree, a) \in ArgumentHolders(tree)
               /\ \A c \in OwnTokens(tree, a) : tree[c].k = ","
               /\ \A c \in ChildNodesOf(tree, a) :
                      /\ tree[c].k \in {"TWIG_NAMED_ARGUMENT", "TWIG_EXPRESSION"}
                      /\ tree[c].k = "TWIG_NAMED_ARGUMENT"
                            <=> WordThenEqual(tree, FirstToken(tree, c))
                      /\ LET n == NextToken(tree, CloseOf(tree, c)) IN
                            n # 0 /\ tree[n].k = "," => n \in OwnTokens(tree, a)
               /\ \A s \in {PrevSibling(tree, a)} \cup OwnTokens(tree, a) :
                      WordThenEqual(tree, NextToken(tree, s)) =>
                          \E c \in ChildNodes(tree, a, "TWIG_NAMED_ARGUMENT") :
                              FirstToken(tree, c) = NextToken(tree, s)
        /\ \A c \in Nodes(tree, "TWIG_NAMED_ARGUMENT") :
               /\ ParentOf(tree, c) # 0
               /\ tree[ParentOf(tree, c)].k = "TWIG_ARGUMENTS"

\* a call with a named argument, a separator and a positional argument has been
\* built, in this order or the other, and its `)` was taken
C20_Witness ==
    /\ phase = "built"
    /\ \E a \in Nodes(tree, "TWIG_ARGUMENTS") :
           /\ Cardinality(ChildNodes(tree, a, "TWIG_NAMED_ARGUMENT")) = 1
           /\ Cardinality(ChildNodes(tree, a, "TWIG_EXPRESSION")) = 1
           /\ Cardinality(OwnTokens(tree, a)) = 1
           /\ OwnOf(tree, ParentOf(tree, a), ")") # {}
           /\ \A j \in 1..Len(errors) : errors[j].at > tree[CloseOf(tree, a) + 1].i
-----------------------------------------------------------------------------
(* C19 *)

\* node j is the BODY of a Twig block
IsBlockBody(tr, j) ==
    /\ tr[j].k = "BODY"
    /\ ParentOf(tr, j) # 0
    /\ tr[ParentOf(tr, j)].k = "TWIG_BLOCK"

\* the node a Twig block stands in, the enclosing blocks and their bodies left out
RECURSIVE HostOf(_, _)
HostOf(tr, j) ==
    LET up == ParentOf(tr, j) IN
    IF up = 0 THEN 0
    ELSE IF tr[up].k = "TWIG_BLOCK" \/ IsBlockBody(tr, up) THEN HostOf(tr, up)
    ELSE up

TWIG_STRUCTURES == {"TWIG_BLOCK", "TWIG_VAR", "TWIG_COMMENT", "ERROR"}

ELEMENTS ==
    {"HTML_TAG", "HTML_TEXT", "HTML_COMMENT", "HTML_DOCTYPE"} \cup TWIG_STRUCTURES

BodyOf(tr, b) == CHOOSE c \in ChildNodes(tr, b, "BODY") : TRUE

EndingOf(tr, b) == CHOOSE c \in ChildNodes(tr, b, "TWIG_ENDING_BLOCK") : TRUE

KindsIn(tr, j) == {tr[c].k : c \in ChildNodesOf(tr, j)}

\* the diagnostics recorded at the input token i
ExpectedAt(i) == {errors[j].exp : j \in {x \in 1..Len(errors) : errors[x].at = i}}

\* C19: the body of a Twig block is parsed with the element parser of the place
\* the block stands in.  Every TWIG_BLOCK has one BODY and one
\* TWIG_ENDING_BLOCK and is never the child of an HTML_ATTRIBUTE.  In an
\* attribute list its BODY holds HTML_ATTRIBUTE nodes and Twig structures only
\* and no token of its own; in a quoted attribute value it holds tokens and Twig
\* structures only; in the document (ROOT or the BODY of an element) it holds
\* elements and no token of its own.  In an attribute list, a BODY that is
\* followed by `<` is followed by an empty TWIG_ENDING_BLOCK, and the missing
\* `{%`, `endblock` and `%}` are reported at that `<`.
C19_ContextualBody ==
    phase = "built" =>
        \A b \in Nodes(tree, "TWIG_BLOCK") :
            /\ Cardinality(ChildNodes(tree, b, "BODY")) = 1
            /\ Cardinality(ChildNodes(tree, b, "TWIG_ENDING_BLOCK")) = 1
            /\ ParentOf(tree, b) # 0
            /\ tree[ParentOf(tree, b)].k # "HTML_ATTRIBUTE"
            /\ LET body == BodyOf(tree, b)
                   host == tree[HostOf(tree, b)].k
                   after == NextToken(tree, CloseOf(tree, body)) IN
               /\ host \in {"HTML_ATTRIBUTE_LIST", "HTML_STRING_INNER", "ROOT", "BODY"}
               /\ host = "HTML_ATTRIBUTE_LIST" =>
                     /\ KindsIn(tree, body) \subseteq {"HTML_ATTRIBUTE"} \cup TWIG_STRUCTURES
                     /\ OwnTokens(tree, body) = {}
                     /\ after # 0 /\ tree[after].k = "<" =>
                           /\ TokensOf(tree, EndingOf(tree, b)) = {}
                           /\ {"{%", "endblock", "%}"} \subseteq ExpectedAt(tree[after].i)
               /\ host = "HTML_STRING_INNER" =>
                     KindsIn(tree, body) \subseteq TWIG_STRUCTURES
               /\ host \in {"ROOT", "BODY"} =>
                     /\ KindsIn(tree, body) \subseteq ELEMENTS
                     /\ OwnTokens(tree, body) = {}

\* `<div {% block a %} a {% block a %} <div/>` has been built: the outer block
\* of the attribute list holds an attribute and the inner block, whose body
\* ends at the markup
C19_Witness ==
    /\ phase = "built"
    /\ \E b \in Nodes(tree, "TWIG_BLOCK") :
       \E inner \in Nodes(tree, "TWIG_BLOCK") :
           /\ tree[ParentOf(tree, b)].k = "HTML_ATTRIBUTE_LIST"
           /\ KindsIn(tree, BodyOf(tree, b)) = {"HTML_ATTRIBUTE", "TWIG_BLOCK"}
           /\ ParentOf(tree, inner) = BodyOf(tree, b)
           /\ TokensOf(tree, EndingOf(tree, inner)) = {}
           /\ LET after == NextToken(tree, CloseOf(tree, inner)) IN
                 /\ after # 0
                 /\ tree[after].k = "<"
                 /\ "endblock" \in ExpectedAt(tree[after].i)
-----------------------------------------------------------------------------
(* C21 *)

\* an entry of a hash in the source: a key, or a key with `: 0`
HASH_ENTRIES == HASH_KEYS \cup {k \o <<COLON, NUMBER>> : k \in HASH_KEYS}

\* the sources `{{ { entry entry }` and `{{ { entry, entry }`
HashSources ==
    { HASH_PREFIX \o x[1] \o x[2] \o x[3] \o <<WS, RBRACE>> :
        x \in HASH_ENTRIES \X {<<>>, <<COMMA>>} \X HASH_ENTRIES }

\* the key k is of one of the four kinds
KeyShape(tr, k) ==
    LET own == OwnTokens(tr, k)
        below == ChildNodesOf(tr, k) IN
    \/ /\ own = {}
       /\ Cardinality(below) = 1
       /\ KindsIn(tr, k) \subseteq {"TWIG_LITERAL_NUMBER", "TWIG_LITERAL_STRING"}
    \/ /\ own # {}
       /\ tr[MinOf(own)].k = "("
       /\ \A c \in own \ {MinOf(own)} : tr[c].k = ")"
       /\ Cardinality(own) <= 2
       /\ KindsIn(tr, k) \subseteq {"TWIG_EXPRESSION", "ERROR"}
       /\ Cardinality(ChildNodes(tr, k, "TWIG_EXPRESSION")) <= 1
    \/ /\ Cardinality(own) = 1
       /\ below = {}
       /\ tr[MinOf(own)].k = "word"
       /\ TWIG_NAME_REGEX(tr[MinOf(own)].s)
       /\ tokens[tr[MinOf(own)].i].k \notin {"number", "'", "\"", "("}

\* C21: hash literals.  The nodes below a TWIG_LITERAL_HASH are
\* TWIG_LITERAL_HASH_PAIR nodes (and ERROR nodes of the recovery), its own
\* tokens are the braces and the separators.  Every pair has exactly one
\* TWIG_LITERAL_HASH_KEY, as its first child; the key is a number literal, a
\* string, a parenthesised expression or a single token labelled as a word
\* whatever its kind in the input was; after the key the pair has either
\* nothing, and then no `:` follows the key in the input, or one `:` and at most
\* one TWIG_EXPRESSION.  Two entries, with or without values, followed by `}`
\* make two pairs and no diagnostic, whether or not a `,` stands between them.
C21_HashPairs ==
    phase = "built" =>
        /\ \A h \in Nodes(tree, "TWIG_LITERAL_HASH") :
               /\ KindsIn(tree, h) \subseteq {"TWIG_LITERAL_HASH_PAIR", "ERROR"}
               /\ \A c \in OwnTokens(tree, h) : tree[c].k \in {"{", ",", "}"}
        /\ \A x \in Nodes(tree, "TWIG_LITERAL_HASH_PAIR") :
               LET k == FirstChild(tree, x)
                   rest == ChildNodesOf(tree, x) \ {k} IN
               /\ tree[ParentOf(tree, x)].k = "TWIG_LITERAL_HASH"
               /\ tree[k].t = "open" /\ tree[k].k = "TWIG_LITERAL_HASH_KEY"
               /\ Cardinality(ChildNodes(tree, x, "TWIG_LITERAL_HASH_KEY")) = 1
               /\ KeyShape(tree, k)
               /\ \A c \in OwnTokens(tree, x) : tree[c].k = ":"
               /\ Cardinality(OwnTokens(tree, x)) <= 1
               /\ \A c \in rest : tree[c].k = "TWIG_EXPRESSION"
               /\ Cardinality(rest) <= Cardinality(OwnTokens(tree, x))
               /\ LET after == NextToken(tree, CloseOf(tree, k)) IN
                     OwnTokens(tree, x) = {} <=> (after = 0 \/ tree[after].k # ":")
        /\ \A k \in Nodes(tree, "TWIG_LITERAL_HASH_KEY") :
               tree[ParentOf(tree, k)].k = "TWIG_LITERAL_HASH_PAIR"
        /\ tokens \in HashSources =>
               /\ \A j \in 1..Len(errors) : errors[j].at > NTok
               /\ Cardinality(Nodes(tree, "TWIG_LITERAL_HASH")) = 1
               /\ Cardinality(Nodes(tree, "TWIG_LITERAL_HASH_PAIR")) = 2
               /\ \E c \in 1..Len(tree) :
                      tree[c].t = "tok" /\ tree[c].k = "}" /\ tree[c].i = NTok
                        /\ tree[ParentOf(tree, c)].k = "TWIG_LITERAL_HASH"

\* `{{ { is (0): 0 }` has been built: the keyword `is` is a key of its own,
\* labelled as a word and without a value, and is followed without a separator
\* by a pair with a parenthesised key and a value
C21_Witness ==
    /\ phase = "built"
    /\ tokens \in HashSources
    /\ \E x \in Nodes(tree, "TWIG_LITERAL_HASH_PAIR") :
       \E y \in Nodes(tree, "TWIG_LITERAL_HASH_PAIR") :
           /\ NextSibling(tree, x) = y
           /\ OwnTokens(tree, x) = {}
           /\ \E c \in OwnTokens(tree, FirstChild(tree, x)) :
                  tree[c].k = "word" /\ tokens[tree[c].i].k = "is"
           /\ Cardinality(OwnTokens(tree, FirstChild(tree, y))) = 2
           /\ Cardinality(ChildNodes(tree, y, "TWIG_EXPRESSION")) = 1
-----------------------------------------------------------------------------
(***************************************************************************)
(* The linter (crates/ludtwig): run_rules walks the tree in preorder and   *)
(* hands its nodes and tokens to the rules.  The trees it is run on here   *)
(* are written down directly, in the shape the parser gives them: leading  *)
(* trivia is the first token of the node that follows it.                  *)
(***************************************************************************)

Tk(k, s) == <<TrTok(k, s, 0)>>

Nd(k, below) == <<TrOpen(k)>> \o below \o <<TrClose>>

\* the tree of a bracket sequence: tokens numbered in document order, depths set
TreeOf(seq) ==
    LET numbered ==
            [j \in 1..Len(seq) |->
                IF seq[j].t = "tok"
                THEN [seq[j] EXCEPT !.i = Cardinality({x \in 1..j : seq[x].t = "tok"})]
                ELSE seq[j]]
    IN Nested(numbered, 1, Len(numbered), 0)

LF == <<"\n">>
CRLF == <<"\r", "\n">>
SPACE == Tk("ws", <<" ">>)

\* a TK_LINE_BREAK token of n line breaks of the kind le
LineBreak(le, n) == Tk("lb", IF n = 1 THEN le ELSE le \o le)

\* the names of the rules
TWIG_BLOCK_LINE_BREAKS ==
    <<"t", "w", "i", "g", "-", "b", "l", "o", "c", "k", "-",
      "l", "i", "n", "e", "-", "b", "r", "e", "a", "k", "s">>
OTHER_RULE == <<"i", "n", "d", "e", "n", "t", "a", "t", "i", "o", "n">>

\* {% block a %} body {% endblock %}, with the trivia before either tag
StartingBlock(lead) ==
    Nd("TWIG_STARTING_BLOCK",
       lead \o Tk("{%", <<"{", "%">>) \o SPACE \o Tk("block", BLOCK.s) \o SPACE
            \o Tk("word", <<"a">>) \o SPACE \o Tk("%}", <<"%", "}">>))

EndingBlock(lead) ==
    Nd("TWIG_ENDING_BLOCK",
       lead \o Tk("{%", <<"{", "%">>) \o SPACE \o Tk("endblock", ENDBLOCK.s) \o SPACE
            \o Tk("%}", <<"%", "}">>))

Block(lead, body, lead2) ==
    Nd("TWIG_BLOCK", StartingBlock(lead) \o Nd("BODY", body) \o EndingBlock(lead2))

\* <name attrs> body </name>
Tag(name, lead, attrs, body, lead2) ==
    Nd("HTML_TAG",
       Nd("HTML_STARTING_TAG",
          lead \o Tk("<", <<"<">>) \o Tk("word", name)
               \o Nd("HTML_ATTRIBUTE_LIST", attrs) \o Tk(">", <<">">>))
       \o Nd("BODY", body)
       \o Nd("HTML_ENDING_TAG",
             lead2 \o Tk("</", <<"<", "/">>) \o Tk("word", name) \o Tk(">", <<">">>)))

\* a="value"
Attribute(value) ==
    Nd("HTML_ATTRIBUTE",
       SPACE \o Tk("word", <<"a">>) \o Tk("=", <<"=">>)
             \o Nd("HTML_STRING",
                   Tk("\"", <<"\"">>) \o Nd("HTML_STRING_INNER", value)
                                      \o Tk("\"", <<"\"">>)))

LUDTWIG_IGNORE == <<"l", "u", "d", "t", "w", "i", "g", "-", "i", "g", "n", "o", "r", "e">>

RECURSIVE Words(_)
Words(names) ==
    IF names = <<>> THEN <<>>
    ELSE SPACE \o Tk("word", Head(names)) \o Words(Tail(names))

\* <!-- ludtwig-ignore names -->
Directive(lead, names) ==
    Nd("LUDTWIG_DIRECTIVE_IGNORE",
       lead \o Tk("<!--", <<"<", "!", "-", "-">>) \o SPACE
            \o Tk("word", LUDTWIG_IGNORE) \o Words(names) \o SPACE
            \o Tk("-->", <<"-", "-", ">">>))

Comment(lead) ==
    Nd("HTML_COMMENT",
       lead \o Tk("<!--", <<"<", "!", "-", "-">>) \o Tk("-->", <<"-", "-", ">">>))

Text(lead) == Nd("HTML_TEXT", lead \o Tk("word", <<"h", "e", "l", "l", "o">>))

\* what root wraps a stray closing tag in
ErrorNode(lead) == Nd("ERROR", lead \o Tk("</", <<"<", "/">>))

Root(below) == TreeOf(Nd("ROOT", below))

(* the walk: preorder_with_tokens *)

EnterOf(c) == [ev |-> "enter", at |-> c]
LeaveOf(c) == [ev |-> "leave", at |-> c]
NoEvent == [ev |-> "none", at |-> 0]

\* the element after element c among the children of its parent (0 if none)
next_sibling_or_token(tr, c) ==
    LET after == IF tr[c].t = "open" THEN CloseOf(tr, c) + 1 ELSE c + 1
    IN IF after > Len(tr) \/ tr[after].t = "close" THEN 0 ELSE after

\* the element before element c among the children of its parent (0 if none)
prev_sibling_or_token(tr, c) ==
    IF c = 1 \/ tr[c - 1].t = "open" THEN 0
    ELSE IF tr[c - 1].t = "tok" THEN c - 1
    ELSE CHOOSE j \in 1..(c - 1) : tr[j].t = "open" /\ CloseOf(tr, j) = c - 1

\* the event that follows event e in the walk that started at the outermost node
AfterEvent(tr, e) ==
    CASE e.ev = "enter" /\ tr[e.at].t = "open" ->
            IF tr[e.at + 1].t = "close" THEN LeaveOf(e.at) ELSE EnterOf(e.at + 1)
      [] e.ev = "enter" /\ tr[e.at].t # "open" -> LeaveOf(e.at)
      [] e.ev = "leave" /\ e.at = 1 -> NoEvent
      [] e.ev = "leave" /\ e.at # 1 ->
            IF next_sibling_or_token(tr, e.at) # 0
            THEN EnterOf(next_sibling_or_token(tr, e.at))
            ELSE LeaveOf(ParentOf(tr, e.at))
      [] OTHER -> NoEvent

\* skip_subtree after the Enter of element c: the descendants of c and the
\* matching Leave are suppressed, the walk goes on behind c
skip_subtree(tr, c) == AfterEvent(tr, LeaveOf(c))

(* the typed view of the nodes the linter looks at *)

\* the rule names a LUDTWIG_DIRECTIVE_IGNORE node lists, in their order
get_rules(tr, j) ==
    LET words == {c \in Children(tr, j) : tr[c].t = "tok" /\ tr[c].k = "word"}
        listed == words \ {MinOf(words)}
        nth[n \in 0..Cardinality(listed)] ==
            IF n = 0 THEN <<>>
            ELSE LET c == CHOOSE x \in listed : Cardinality({y \in listed : y <= x}) = n
                 IN Append(nth[n - 1], tr[c].s)
    IN nth[Cardinality(listed)]

\* the name of the HTML_TAG node j: the word of its starting tag (<<>> if none)
TagName(tr, j) ==
    LET starts == ChildNodes(tr, j, "HTML_STARTING_TAG")
        words == UNION {{c \in Children(tr, st) : tr[c].t = "tok" /\ tr[c].k = "word"} :
                        st \in starts}
    IN IF words = {} THEN <<>> ELSE tr[MinOf(words)].s

TRIVIA_SENSITIVE == {<<"p", "r", "e">>, <<"t", "e", "x", "t", "a", "r", "e", "a">>}

IsTriviaSensitive(tr, c) ==
    tr[c].t = "open" /\ tr[c].k = "HTML_TAG" /\ TagName(tr, c) \in TRIVIA_SENSITIVE

\* the rule names run_rules finds for element c: those of an ignore directive
\* that is the element before c
FoundIgnoredRules(tr, c) ==
    LET before == prev_sibling_or_token(tr, c)
    IN IF before # 0 /\ tr[before].t = "open" /\ tr[before].k = "LUDTWIG_DIRECTIVE_IGNORE"
       THEN get_rules(tr, before)
       ELSE <<>>

\* an ignore directive that lists no rules is the element before c
AllRulesDisabled(tr, c) ==
    LET before == prev_sibling_or_token(tr, c)
    IN /\ before # 0
       /\ tr[before].t = "open"
       /\ tr[before].k = "LUDTWIG_DIRECTIVE_IGNORE"
       /\ get_rules(tr, before) = <<>>

\* the child nodes of node j that come before / after its child c
prev_sibling(tr, c) ==
    LET earlier == {x \in ChildNodesOf(tr, ParentOf(tr, c)) : x < c}
    IN IF earlier = {} THEN 0 ELSE MaxOf(earlier)

next_sibling(tr, c) ==
    LET later == {x \in ChildNodesOf(tr, ParentOf(tr, c)) : x > c}
    IN IF later = {} THEN 0 ELSE MinOf(later)

\* the first and the last token below node j, trivia included (0 if none)
first_token(tr, j) == IF TokensOf(tr, j) = {} THEN 0 ELSE MinOf(TokensOf(tr, j))

last_token(tr, j) == IF TokensOf(tr, j) = {} THEN 0 ELSE MaxOf(TokensOf(tr, j))

\* the token that follows token c in the document, trivia included (0 if none)
next_token(tr, c) ==
    LET later == {x \in (c + 1)..Len(tr) : tr[x].t = "tok"}
    IN IF later = {} THEN 0 ELSE MinOf(later)

starting_block(tr, j) ==
    LET found == ChildNodes(tr, j, "TWIG_STARTING_BLOCK")
    IN IF found = {} THEN 0 ELSE MinOf(found)

ending_block(tr, j) ==
    LET found == ChildNodes(tr, j, "TWIG_ENDING_BLOCK")
    IN IF found = {} THEN 0 ELSE MinOf(found)

\* the offset token c starts at: the length of the text before it
TextStart(tr, c) ==
    LET before[n \in 0..(c - 1)] ==
            IF n = 0 THEN 0
            ELSE before[n - 1] + (IF tr[n].t = "tok" THEN Len(tr[n].s) ELSE 0)
    IN before[c - 1]

text_range(tr, c) == [start |-> TextStart(tr, c), end |-> TextStart(tr, c) + Len(tr[c].s)]

(* the rule twig-block-line-breaks *)

LINE_ENDINGS == {"unix_lf", "windows_crlf"}

corresponding_string(line_ending) == IF line_ending = "windows_crlf" THEN CRLF ELSE LF

repeat(str, n) == IF n = 1 THEN str ELSE str \o str

WRONG_LINE_BREAK == "Wrong line break around block"
MISSING_LINE_BREAK == "Missing line break around block"

create_result(message, range, expected_str, line_break_amount) ==
    [rule_name |-> TWIG_BLOCK_LINE_BREAKS, severity |-> "Help", message |-> message,
     range |-> range, replace_with |-> expected_str, amount |-> line_break_amount]

\* (a variant for comparison) one line break whatever the configuration says
config_line_break_amount_one(config) == 1

\* the two line break amounts the configuration asks for
config_line_break_amount(config) == IF config.linebreaks_around_blocks THEN 2 ELSE 1

\* the token after the ending block (0 if none); a token that belongs to the
\* starting tag of another block is left out
after_block_token(tr, ending) ==
    LET last == last_token(tr, ending)
        after == IF last = 0 THEN 0 ELSE next_token(tr, last)
    IN IF after # 0 /\ ParentOf(tr, after) # 0
          /\ tr[ParentOf(tr, after)].k = "TWIG_STARTING_BLOCK"
       THEN 0 ELSE after

\* what one of the two tokens is reported for (<<>> if nothing)
validate(tr, token, expected_str, line_break_amount) ==
    IF token = 0 THEN <<>>
    ELSE IF tr[token].k = "lb"
    THEN IF tr[token].s # expected_str
         THEN <<create_result(WRONG_LINE_BREAK, text_range(tr, token), expected_str,
                              line_break_amount)>>
         ELSE <<>>
    ELSE <<create_result(MISSING_LINE_BREAK,
                         [start |-> TextStart(tr, token), end |-> TextStart(tr, token)],
                         expected_str, line_break_amount)>>

STARTING_COMMENTS ==
    {"TWIG_COMMENT", "HTML_COMMENT", "LUDTWIG_DIRECTIVE_FILE_IGNORE",
     "LUDTWIG_DIRECTIVE_IGNORE"}

\* check_node of the rule: the results for node `node` (<<>> for None)
check_node(tr, node, traversal_ctx, config) ==
    IF traversal_ctx.inside_trivia_sensitive_node THEN <<>>
    ELSE IF tr[node].k # "TWIG_BLOCK" THEN <<>>
    ELSE IF ParentOf(tr, node) = 0 \/ tr[ParentOf(tr, node)].k = "ROOT" THEN <<>>
    ELSE IF starting_block(tr, node) = 0 \/ ending_block(tr, node) = 0 THEN <<>>
    ELSE LET prev == prev_sibling(tr, node)
             starting_syntax ==
                 IF prev # 0 /\ tr[prev].k \in STARTING_COMMENTS
                 THEN prev ELSE starting_block(tr, node)
             first_child_token == first_token(tr, starting_syntax)
             after == after_block_token(tr, ending_block(tr, node))
             expected_line_break == corresponding_string(config.line_ending)
             before_line_break_amount ==
                 IF prev # 0 THEN config_line_break_amount(config) ELSE 1
             after_line_break_amount ==
                 IF next_sibling(tr, node) # 0 THEN config_line_break_amount(config) ELSE 1
         IN validate(tr, first_child_token,
                     repeat(expected_line_break, before_line_break_amount),
                     before_line_break_amount)
            \o validate(tr, after,
                        repeat(expected_line_break, after_line_break_amount),
                        after_line_break_amount)

(* run_rules *)

\* what the parser leaves behind is not touched by the linter
parsed == <<tokens, pos, events, errors, stalls, diverged, iters, tree, given>>

\* (a variant for comparison) a walk that takes no node for an ERROR node
IsErrorNode_never(tr, c) == FALSE

IsErrorNode(tr, c) == tr[c].t = "open" /\ tr[c].k = "ERROR"

IsIgnored(ignored, rule) == \E x \in 1..Len(ignored) : ignored[x] = rule

\* the rules of the file that are not ignored, in their order
RulesToRun(definitions, ignored) ==
    SelectSeq(definitions, LAMBDA rule : ~IsIgnored(ignored, rule))

\* one call of fn per rule that is run, for element c
CallsOf(fn, rules, c) == [x \in 1..Len(rules) |-> [fn |-> fn, rule |-> rules[x], at |-> c]]

\* (a variant for comparison) an Enter that does not keep the rules it found
append_nothing(ignored, found) == ignored

\* ignored_rules.append(found_ignored_rules)
append(ignored, found) == ignored \o found

\* ignored_rules.iter().position(|r| r == rule): 0 for None
position(ignored, rule) ==
    IF IsIgnored(ignored, rule)
    THEN MinOf({x \in 1..Len(ignored) : ignored[x] = rule})
    ELSE 0

\* ignored_rules.remove(index)
remove(ignored, index) ==
    [x \in 1..(Len(ignored) - 1) |-> IF x < index THEN ignored[x] ELSE ignored[x + 1]]

\* the loop that removes the found rules one by one: the list that is left,
\* or a panic of unwrap() when a rule has no position
RECURSIVE remove_found(_, _)
remove_found(ignored, found) ==
    IF found = <<>> THEN [panic |-> FALSE, ignored_rules |-> ignored]
    ELSE IF position(ignored, Head(found)) = 0
    THEN [panic |-> TRUE, ignored_rules |-> ignored]
    ELSE remove_found(remove(ignored, position(ignored, Head(found))), Tail(found))

\* the state run_rules starts from
InitRules ==
    /\ phase = "rules"
    /\ preorder = NoEvent
    /\ ignored_rules = <<>>
    /\ rule_context = [check_results |-> <<>>,
                       traversal_ctx |-> [inside_trivia_sensitive_node |-> FALSE]]
    /\ calls = <<>>

\* the root checks, or the return when the file has no rules
CheckRoot ==
    /\ phase = "rules"
    /\ IF file_context.file_rule_definitions = <<>>
       THEN /\ phase' = "checked"
            /\ UNCHANGED <<preorder, calls>>
       ELSE /\ phase' = "walk"
            /\ calls' = CallsOf("check_root", file_context.file_rule_definitions, 1)
            /\ preorder' = EnterOf(1)
    /\ UNCHANGED <<parsed, contextvars, file_context, ignored_rules, rule_context>>

\* WalkEvent::Enter(element)
OnEnter ==
    /\ phase = "walk"
    /\ preorder.ev = "enter"
    /\ LET element == preorder.at
           ignored == append(ignored_rules, FoundIgnoredRules(tree, element))
           entered ==
               IF IsTriviaSensitive(tree, element)
               THEN [rule_context EXCEPT
                        !.traversal_ctx.inside_trivia_sensitive_node = TRUE]
               ELSE rule_context
           rules == RulesToRun(file_context.file_rule_definitions, ignored)
       IN IF AllRulesDisabled(tree, element)
          THEN /\ preorder' = skip_subtree(tree, element)
               /\ UNCHANGED <<ignored_rules, rule_context, calls>>
          ELSE IF IsErrorNode(tree, element)
          THEN /\ preorder' = skip_subtree(tree, element)
               /\ ignored_rules' = ignored
               /\ UNCHANGED <<rule_context, calls>>
          ELSE IF tree[element].t = "open"
          THEN /\ preorder' = AfterEvent(tree, preorder)
               /\ ignored_rules' = ignored
               /\ calls' = calls \o CallsOf("check_node", rules, element)
               /\ rule_context' =
                      [entered EXCEPT !.check_results =
                          IF IsIgnored(rules, TWIG_BLOCK_LINE_BREAKS)
                          THEN @ \o check_node(tree, element, entered.traversal_ctx,
                                               file_context.config)
                          ELSE @]
          ELSE /\ preorder' = AfterEvent(tree, preorder)
               /\ ignored_rules' = ignored
               /\ calls' = calls \o CallsOf("check_token", rules, element)
               /\ UNCHANGED rule_context
    /\ UNCHANGED <<parsed, contextvars, phase, file_context>>

\* WalkEvent::Leave(element)
OnLeave ==
    /\ phase = "walk"
    /\ preorder.ev = "leave"
    /\ LET element == preorder.at
           left == remove_found(ignored_rules, FoundIgnoredRules(tree, element))
       IN IF left.panic
          THEN /\ phase' = "panicked"
               /\ UNCHANGED <<preorder, ignored_rules, rule_context>>
          ELSE /\ phase' = phase
               /\ preorder' = AfterEvent(tree, preorder)
               /\ ignored_rules' = left.ignored_rules
               /\ rule_context' =
                      IF IsTriviaSensitive(tree, element)
                      THEN [rule_context EXCEPT
                               !.traversal_ctx.inside_trivia_sensitive_node = FALSE]
                      ELSE rule_context
    /\ UNCHANGED <<parsed, contextvars, file_context, calls>>

\* the walk is over: run_rules returns the context
ReturnContext ==
    /\ phase = "walk"
    /\ preorder.ev = "none"
    /\ phase' = "checked"
    /\ UNCHANGED <<parsed, checkvars, contextvars>>

NextRules == CheckRoot \/ OnEnter \/ OnLeave \/ ReturnContext

\* the file context of a tree: the tree, its tokens, no parse errors kept
Checked(tr, definitions, config) ==
    /\ tree = tr
    /\ tokens = [x \in 1..Len(Leaves(tr)) |-> Tok(Leaves(tr)[x].k, Leaves(tr)[x].s)]
    /\ pos = Len(Leaves(tr)) + 1
    /\ events = <<>>
    /\ errors = <<>>
    /\ stalls = {}
    /\ diverged = FALSE
    /\ iters = 0
    /\ given = <<>>
    /\ file_context = [file_rule_definitions |-> definitions, config |-> config]
    /\ InitRules
    /\ NotCombining

(* the trees the walk is checked on *)

MaxSiblings == 3
MaxInner == 2

DEFAULT_CONFIG == [line_ending |-> "unix_lf", linebreaks_around_blocks |-> TRUE]

\* ignore directives: no rule, one rule, one rule twice, two rules
IGNORE_ALL == Directive(<<>>, <<>>)
IGNORE_ONE == Directive(<<>>, <<TWIG_BLOCK_LINE_BREAKS>>)
IGNORE_TWICE == Directive(<<>>, <<TWIG_BLOCK_LINE_BREAKS, TWIG_BLOCK_LINE_BREAKS>>)
IGNORE_TWO == Directive(<<>>, <<TWIG_BLOCK_LINE_BREAKS, OTHER_RULE>>)

\* a block without a line break around it
BARE_BLOCK == Block(<<>>, Text(<<>>), <<>>)

Plain(name, body) == Tag(name, <<>>, <<>>, body, <<>>)

\* the children of ROOT: text, stray closing tags, directives, a block in a <div>
SiblingTrees ==
    { Root(items) :
        items \in Streams(<<>>, { Text(<<>>), ErrorNode(<<>>), IGNORE_ALL, IGNORE_ONE,
                                  IGNORE_TWICE, IGNORE_TWO,
                                  Plain(DIV.s, BARE_BLOCK) }, MaxSiblings) }

\* what a block can be wrapped in
Wrapped(body) ==
    { Plain(<<"p", "r", "e">>, body), Plain(<<"t", "e", "x", "t", "a", "r", "e", "a">>, body),
      Plain(DIV.s, body),
      Block(<<>>, body, <<>>) }

\* two levels of elements around a block, a directive before either level, a
\* second block after the inner element
NestedTrees ==
    { Root(before \o outer) :
        before \in {<<>>, IGNORE_ALL, IGNORE_ONE},
        outer \in UNION { Wrapped(inside \o inner \o after) :
                            inside \in {<<>>, IGNORE_ALL, IGNORE_ONE},
                            inner \in Wrapped(BARE_BLOCK),
                            after \in {<<>>, BARE_BLOCK} } }

\* an attribute value: directives, words and a block as children of its
\* HTML_STRING_INNER
ValueTrees ==
    { Root(Tag(DIV.s, <<>>, Attribute(value), <<>>, <<>>)) :
        value \in Streams(<<>>, { IGNORE_ALL, IGNORE_ONE, Tk("word", <<"a">>), BARE_BLOCK },
                           MaxInner) }

InitCheck ==
    \E tr \in SiblingTrees \cup NestedTrees \cup ValueTrees :
    \E definitions \in {<<>>, <<TWIG_BLOCK_LINE_BREAKS, OTHER_RULE>>} :
        Checked(tr, definitions, DEFAULT_CONFIG)

SpecCheck == InitCheck /\ [][NextRules]_vars

(* the trees the rule is checked on *)

\* what stands before a tag or a comment: nothing, line breaks of either kind,
\* one or two in one token, two tokens of one line break
LEADS ==
    { <<>>, LineBreak(LF, 1) \o SPACE, LineBreak(LF, 2), LineBreak(CRLF, 1),
      LineBreak(CRLF, 2), LineBreak(LF, 1) \o LineBreak(LF, 1) }

\* a block with what is before it among the children of its parent
BlockAfter ==
    { Block(lead, Text(<<>>), <<>>) : lead \in LEADS }
    \cup { Text(<<>>) \o Block(lead, Text(<<>>), <<>>) : lead \in LEADS }
    \cup { comment \o Block(lead, Text(<<>>), <<>>) :
             comment \in UNION { {Comment(before), Directive(before, <<OTHER_RULE>>)} :
                                   before \in {<<>>, LineBreak(LF, 1), LineBreak(LF, 2)} },
             lead \in {<<>>, LineBreak(LF, 1)} }

\* what is after a block among the children of its parent
AfterBlock ==
    {<<>>} \cup { Text(lead) : lead \in LEADS }
           \cup { Block(lead, Text(<<>>), <<>>) : lead \in {<<>>, LineBreak(LF, 2)} }

\* blocks in a <div>, a block under ROOT, a block in an attribute value
RuleTrees ==
    { Root(Tag(DIV.s, <<>>, <<>>, block \o after, lead)) :
        block \in BlockAfter, after \in AfterBlock, lead \in {<<>>, LineBreak(LF, 1)} }
    \cup { Root(Tag(DIV.s, <<>>, <<>>, Block(<<>>, Text(<<>>), <<>>), lead)) : lead \in LEADS }
    \cup { Root(Text(<<>>) \o Block(lead, Text(<<>>), <<>>) \o Text(<<>>)) : lead \in LEADS }
    \cup { Root(Tag(DIV.s, <<>>, Attribute(BARE_BLOCK), <<>>, <<>>)) }

CONFIGS == [line_ending : LINE_ENDINGS, linebreaks_around_blocks : BOOLEAN]

InitRule ==
    \E tr \in RuleTrees : \E config \in CONFIGS :
        Checked(tr, <<TWIG_BLOCK_LINE_BREAKS>>, config)

SpecRule == InitRule /\ [][NextRules]_vars

-----------------------------------------------------------------------------
(* C22 *)

\* the nodes entry c is below: at each depth above c, the node opened last
Ancestors(tr, c) ==
    {MaxOf({j \in 1..(c - 1) : tr[j].t = "open" /\ tr[j].d = depth}) :
        depth \in 1..DepthBefore(tr, c)}

\* the TWIG_BLOCK nodes below the HTML_STRING_INNER of a quoted attribute value
QuotedBlocks(tr) ==
    {c \in Nodes(tr, "TWIG_BLOCK") :
        \E v \in Ancestors(tr, c) :
            /\ tr[v].k = "HTML_STRING"
            /\ OpeningQuote(tr, v) \in QUOTES
            /\ InnerOf(tr, v) \in Ancestors(tr, c)}

\* the walk is at the Enter of node c and hands it to twig-block-line-breaks
ChecksNode(c) ==
    /\ phase = "walk"
    /\ preorder = EnterOf(c)
    /\ ~AllRulesDisabled(tree, c)
    /\ ~IsIgnored(append(ignored_rules, FoundIgnoredRules(tree, c)), TWIG_BLOCK_LINE_BREAKS)
    /\ IsIgnored(file_context.file_rule_definitions, TWIG_BLOCK_LINE_BREAKS)

\* C22: twig-block-line-breaks reports nothing for a block in a quoted attribute
\* value: when run_rules hands such a block to the rule, no result is added,
\* although the parent of the block is not ROOT and no line break is around it.
C22_NoReportInAttributeValue ==
    [][\A c \in QuotedBlocks(tree) :
          ChecksNode(c) => rule_context'.check_results = rule_context.check_results]_vars

-----------------------------------------------------------------------------
(* C23 *)

\* the nodes the walk is inside of: those entered and not yet left
Inside(tr, next) ==
    CASE next.ev = "enter" -> Ancestors(tr, next.at)
      [] next.ev = "leave" -> Ancestors(tr, next.at) \cup {next.at}
      [] OTHER -> {}

\* the TWIG_BLOCK nodes below a pre or textarea element, at any depth
SensitiveBlocks(tr) ==
    {c \in Nodes(tr, "TWIG_BLOCK") : \E j \in Ancestors(tr, c) : IsTriviaSensitive(tr, j)}

\* C23: during run_rules inside_trivia_sensitive_node is true exactly while
\* the walk is inside a pre or textarea element, from its Enter to its matching
\* Leave, also when such elements are nested in one another, and the rule adds
\* no result for a block below such an element.
C23_TriviaSensitive ==
    /\ [](phase = "walk" =>
            (rule_context.traversal_ctx.inside_trivia_sensitive_node
                <=> \E j \in Inside(tree, preorder) : IsTriviaSensitive(tree, j)))
    /\ [][\A c \in SensitiveBlocks(tree) :
             ChecksNode(c) => rule_context'.check_results = rule_context.check_results]_vars

-----------------------------------------------------------------------------
(* C24 *)

\* the members of a set of entries as a sequence, in document order
InOrder(set) ==
    LET nth[n \in 0..Cardinality(set)] ==
            IF n = 0 THEN <<>>
            ELSE Append(nth[n - 1],
                        CHOOSE x \in set : Cardinality({y \in set : y <= x}) = n)
    IN nth[Cardinality(set)]

\* the node before / after node c among the child nodes of its parent (0 if none)
NodeBefore(tr, c) ==
    LET earlier == {x \in ChildNodesOf(tr, ParentOf(tr, c)) : x < c}
    IN IF earlier = {} THEN 0 ELSE MaxOf(earlier)

NodeAfter(tr, c) ==
    LET later == {x \in ChildNodesOf(tr, ParentOf(tr, c)) : x > c}
    IN IF later = {} THEN 0 ELSE MinOf(later)

\* the token before the block: the first token of its starting block, or of a
\* comment or directive that is the sibling before it
TokenBefore(tr, c) ==
    LET before == NodeBefore(tr, c)
        from == IF before # 0 /\ tr[before].k \in STARTING_COMMENTS THEN before ELSE c
    IN MinOf(TokensOf(tr, from))

\* the token after the ending block (0 if the input ends there)
TokenAfter(tr, c) ==
    IF \E x \in CloseOf(tr, c)..Len(tr) : tr[x].t = "tok"
    THEN MinOf({x \in CloseOf(tr, c)..Len(tr) : tr[x].t = "tok"})
    ELSE 0

\* N line endings of the configuration
LineBreaks(config, sibling) ==
    LET ending == IF config.line_ending = "unix_lf" THEN <<"\n">> ELSE <<"\r", "\n">>
    IN IF config.linebreaks_around_blocks /\ sibling # 0
       THEN [amount |-> 2, text |-> ending \o ending]
       ELSE [amount |-> 1, text |-> ending]

\* what is reported for one token that has to be the line breaks `wanted`
ReportFor(tr, token, wanted) ==
    IF token = 0 THEN <<>>
    ELSE IF tr[token].k = "lb" /\ tr[token].s = wanted.text THEN <<>>
    ELSE IF tr[token].k = "lb"
    THEN <<[rule_name |-> TWIG_BLOCK_LINE_BREAKS, severity |-> "Help",
            message |-> "Wrong line break around block",
            range |-> [start |-> TextStart(tr, token),
                       end |-> TextStart(tr, token) + Len(tr[token].s)],
            replace_with |-> wanted.text, amount |-> wanted.amount]>>
    ELSE <<[rule_name |-> TWIG_BLOCK_LINE_BREAKS, severity |-> "Help",
            message |-> "Missing line break around block",
            range |-> [start |-> TextStart(tr, token), end |-> TextStart(tr, token)],
            replace_with |-> wanted.text, amount |-> wanted.amount]>>

\* what the contract asks to be reported for block c
Contract(tr, c, config) ==
    IF tr[ParentOf(tr, c)].k = "ROOT" THEN <<>>
    ELSE ReportFor(tr, TokenBefore(tr, c), LineBreaks(config, NodeBefore(tr, c)))
         \o (IF TokenAfter(tr, c) # 0
                 /\ tr[ParentOf(tr, TokenAfter(tr, c))].k = "TWIG_STARTING_BLOCK"
              THEN <<>>
              ELSE ReportFor(tr, TokenAfter(tr, c), LineBreaks(config, NodeAfter(tr, c))))

RECURSIVE ContractOf(_, _, _)
ContractOf(tr, blocks, config) ==
    IF blocks = <<>> THEN <<>>
    ELSE Contract(tr, Head(blocks), config) \o ContractOf(tr, Tail(blocks), config)

\* the rule is run for every node of the tree: there is no ERROR node, and no
\* ignore directive that turns the rule off
RunEverywhere(tr) ==
    /\ Nodes(tr, "ERROR") = {}
    /\ \A d \in Nodes(tr, "LUDTWIG_DIRECTIVE_IGNORE") :
          /\ get_rules(tr, d) # <<>>
          /\ ~IsIgnored(get_rules(tr, d), TWIG_BLOCK_LINE_BREAKS)

-----------------------------------------------------------------------------
(* C25 *)

\* the elements of the tree: its nodes and tokens
Elements(tr) == {c \in 1..Len(tr) : tr[c].t # "close"}

\* the elements that are an ERROR node or below one
InError(tr) == UNION {{c \in e..CloseOf(tr, e) : tr[c].t # "close"} : e \in Nodes(tr, "ERROR")}

\* the calls of fn for rule `rule` and element c
CallsFor(fn, rule, c) ==
    {x \in 1..Len(calls) : calls[x] = [fn |-> fn, rule |-> rule, at |-> c]}

CheckFn(tr, c) == IF tr[c].t = "open" THEN "check_node" ELSE "check_token"

\* C25: no ERROR node and nothing below one is handed to check_node or
\* check_token of a rule, and the walk is never inside an ERROR node: it goes on
\* with what follows the ERROR node, so that in a tree without ignore
\* directives every element outside the ERROR nodes is handed to every rule
\* once.  check_root is called once per rule, with or without ERROR nodes.
C25_ErrorNodesSkipped ==
    /\ LET skipped == InError(tree)
       IN \A x \in 1..Len(calls) :
             calls[x].fn \in {"check_node", "check_token"} => calls[x].at \notin skipped
    /\ phase = "walk" => \A j \in Inside(tree, preorder) : tree[j].k # "ERROR"
    /\ phase \in {"walk", "checked"} =>
          \A x \in 1..Len(file_context.file_rule_definitions) :
              Cardinality(CallsFor("check_root", file_context.file_rule_definitions[x], 1)) = 1
    /\ (phase = "checked" /\ Nodes(tree, "LUDTWIG_DIRECTIVE_IGNORE") = {}) =>
          LET checked == Elements(tree) \ InError(tree)
          IN \A x \in 1..Len(file_context.file_rule_definitions) :
                \A c \in checked :
                    Cardinality(CallsFor(CheckFn(tree, c),
                                         file_context.file_rule_definitions[x], c)) = 1

\* a finished run over a tree with an ERROR node and an element after it
C25_Witness ==
    /\ phase = "checked"
    /\ file_context.file_rule_definitions # <<>>
    /\ Nodes(tree, "LUDTWIG_DIRECTIVE_IGNORE") = {}
    /\ \E e \in Nodes(tree, "ERROR") :
          /\ TokensOf(tree, e) # {}
          /\ next_sibling_or_token(tree, e) # 0
          /\ CallsFor("check_node", TWIG_BLOCK_LINE_BREAKS,
                      next_sibling_or_token(tree, e)) # {}

-----------------------------------------------------------------------------
(* C26 *)

\* the element that follows directive d as sibling, with its subtree
ScopeOf(tr, d) ==
    LET e == next_sibling_or_token(tr, d)
    IN IF e = 0 THEN {}
       ELSE IF tr[e].t = "open" THEN {c \in e..CloseOf(tr, e) : tr[c].t # "close"}
       ELSE {e}

\* the elements rule `rule` is turned off for by a directive that lists it
IgnoredFor(tr, rule) ==
    UNION {ScopeOf(tr, d) : d \in {x \in Nodes(tr, "LUDTWIG_DIRECTIVE_IGNORE") :
                                      IsIgnored(get_rules(tr, x), rule)}}

\* the elements after a directive that lists no rule
IgnoredForAll(tr) ==
    UNION {ScopeOf(tr, d) : d \in {x \in Nodes(tr, "LUDTWIG_DIRECTIVE_IGNORE") :
                                      get_rules(tr, x) = <<>>}}

\* the calls of check_node and check_token for rule `rule`
CheckedBy(rule) ==
    {calls[x].at : x \in {y \in 1..Len(calls) :
                             calls[y].rule = rule /\ calls[y].fn # "check_root"}}

\* C26: an ignore directive holds for the element that follows it as sibling
\* and for its subtree, and for nothing else: a rule it lists is not run
\* there, nothing is run after a directive that lists no rule, every other
\* element outside the ERROR nodes is handed to the rule, and ignored_rules is
\* empty when the walk is over, also when an ERROR node or a token follows
\* the directive.
C26_IgnoreDirectiveScope ==
    /\ \A x \in 1..Len(file_context.file_rule_definitions) :
          LET rule == file_context.file_rule_definitions[x]
              off == IgnoredFor(tree, rule) \cup IgnoredForAll(tree)
          IN /\ CheckedBy(rule) \cap off = {}
             /\ phase = "checked" =>
                   (Elements(tree) \ (off \cup InError(tree))) \subseteq CheckedBy(rule)
    /\ phase = "checked" => ignored_rules = <<>>

-----------------------------------------------------------------------------
(* C27 *)

\* the number of times rule stands in the list
Times(list, rule) == Cardinality({x \in 1..Len(list) : list[x] = rule})

\* C27: the unwrap() of the Leave branch does not panic.  At every Leave each
\* rule name the loop removes is in ignored_rules, as often as the directive
\* before the element lists it, whatever the directives (none, one or two
\* names, a name twice, directives in a row) and the skipped subtrees are.
C27_UnwrapNeverPanics ==
    /\ phase # "panicked"
    /\ (phase = "walk" /\ preorder.ev = "leave") =>
          LET found == FoundIgnoredRules(tree, preorder.at)
          IN /\ ~remove_found(ignored_rules, found).panic
             /\ \A x \in 1..Len(found) :
                   Times(ignored_rules, found[x]) >= Times(found, found[x])

\* the walk is at the Leave of an element after a directive that lists a rule
\* twice, in a tree that also has a skipped subtree
C27_Witness ==
    /\ phase = "walk"
    /\ preorder.ev = "leave"
    /\ Times(FoundIgnoredRules(tree, preorder.at), TWIG_BLOCK_LINE_BREAKS) = 2
    /\ Times(ignored_rules, TWIG_BLOCK_LINE_BREAKS) = 2
    /\ InError(tree) \cup IgnoredForAll(tree) # {}

-----------------------------------------------------------------------------
(* C28 *)

\* the number of events of type t among the first n events
CountOf(ev, t, n) == Cardinality({x \in 1..n : ev[x].t = t})

\* the Start events that are the forward parent of an event
ForwardParentsIn(ev) == {ev[x].fp : x \in {y \in 1..Len(ev) : ev[y].fp # 0}}

-----------------------------------------------------------------------------
(* C29 *)

\* where text ends: the recovery anchors and `</`
TEXT_STOPS == GENERAL_RECOVERY_SET \cup {"</"}

\* the input indices of the tokens that are not trivia
Significant == {i \in 1..Len(tokens) : tokens[i].k \notin TRIVIA}

\* the cursor is at the end of the input, at a recovery anchor or at `</`
AtTextStop ==
    \/ \A i \in pos..Len(tokens) : i \notin Significant
    \/ \E i \in Significant :
          /\ i >= pos
          /\ tokens[i].k \in TEXT_STOPS
          /\ \A x \in pos..(i - 1) : x \notin Significant

\* C29: parse_html_text.  Called at the end of the input, at a recovery anchor
\* or at `</` it returns no node and leaves cursor and event log as they are;
\* called anywhere else it returns an HTML_TEXT node and moves the cursor.
\* Every HTML_TEXT node of a tree holds tokens only, at least one that is no
\* trivia, none of them an anchor or `</`, and ends where the next token that
\* is no trivia is an anchor or `</` or where the input ends.
C29_TextNodes ==
    /\ phase = "root" =>
          LET r == parse_html_text(P)
          IN IF AtTextStop
             THEN r.ret = 0 /\ r.pos = pos /\ r.ev = events /\ r.err = errors
             ELSE /\ r.ret # 0
                  /\ r.ev[r.ret] = EvStart("HTML_TEXT", 0)
                  /\ r.pos > pos
    /\ phase = "built" =>
          \A n \in Nodes(tree, "HTML_TEXT") :
              LET own == TokenIndices(tree, n)
              IN /\ own # {}
                 /\ ChildNodesOf(tree, n) = {}
                 /\ \A i \in own : tokens[i].k \notin TEXT_STOPS
                 /\ \A i \in Significant : MinOf(own) <= i /\ i <= MaxOf(own) => i \in own
                 /\ \A i \in Significant :
                       (i > MaxOf(own) /\ \A x \in (MaxOf(own) + 1)..(i - 1) :
                                             x \notin Significant)
                          => tokens[i].k \in TEXT_STOPS

\* a tree with a text of two words that ends before a `</`, and a text that
\* ends with the input
C29_Witness ==
    /\ phase = "built"
    /\ \E n, m \in Nodes(tree, "HTML_TEXT") :
          /\ Cardinality(TokenIndices(tree, n)) >= 2
          /\ MaxOf(TokenIndices(tree, n)) < Len(tokens)
          /\ tokens[MaxOf(TokenIndices(tree, n)) + 1].k = "</"
          /\ MaxOf(TokenIndices(tree, m)) = MaxOf(Significant)

-----------------------------------------------------------------------------
(***************************************************************************)
(* dynamic_context (libs/twig/src/parser/general.rs): the combinator that  *)
(* adds a context string to the error of a nom parser.  A parser f is the  *)
(* function from the input to its nom::IResult; the closure that           *)
(* dynamic_context returns is applied one input at a time.                 *)
(***************************************************************************)

\* the number of times a closure is applied
MaxCalls == 2

\* Input: what is left of the text
INPUTS == {<<"a", "b">>, <<"b">>}

\* the strings a context_creator returns
CONTEXTS == {<<"c", "1">>, <<"c", "2">>}

\* the errors of a parser, one of them with a context of its own
ERRORS == {[leftover |-> <<"b">>, context |-> <<>>],
           [leftover |-> <<"b">>, context |-> <<"c", "0">>]}

\* nom::IResult
Ok(rest, o) == [t |-> "Ok", rest |-> rest, o |-> o]
Incomplete(needed) == [t |-> "Incomplete", needed |-> needed]
Error(e) == [t |-> "Error", e |-> e]
Failure(e) == [t |-> "Failure", e |-> e]

RESULTS ==
    {Ok(rest, "o") : rest \in INPUTS}
    \cup {Incomplete(needed) : needed \in {"Unknown", "Size"}}
    \cup {Error(e) : e \in ERRORS}
    \cup {Failure(e) : e \in ERRORS}

\* E::add_dynamic_context(input, ctx, other): the error other with the
\* context ctx at input
add_dynamic_context(input, ctx, other) ==
    [input |-> input, context |-> ctx, other |-> other]

\* (a variant for comparison) the context is made before f is run
dynamic_context_eager(context_creator, f, i) ==
    LET r == f[i]
    IN IF r.t \in {"Error", "Failure"}
       THEN [out |-> [r EXCEPT !.e = add_dynamic_context(i, context_creator, r.e)],
             created |-> <<context_creator>>]
       ELSE [out |-> r, created |-> <<context_creator>>]

\* the closure of dynamic_context(context_creator, f), applied to i: what it
\* returns and the strings context_creator was called for
dynamic_context(context_creator, f, i) ==
    LET r == f[i]
    IN CASE r.t = "Ok" -> [out |-> Ok(r.rest, r.o), created |-> <<>>]
         [] r.t = "Incomplete" -> [out |-> Incomplete(r.needed), created |-> <<>>]
         [] r.t = "Error" ->
               [out |-> Error(add_dynamic_context(i, context_creator, r.e)),
                created |-> <<context_creator>>]
         [] r.t = "Failure" ->
               [out |-> Failure(add_dynamic_context(i, context_creator, r.e)),
                created |-> <<context_creator>>]

\* dynamic_context has returned a closure
InitContext ==
    /\ combinator \in [context_creator : CONTEXTS, f : [INPUTS -> RESULTS]]
    /\ applied = <<>>
    /\ phase = "combinator"
    /\ tokens = <<>>
    /\ pos = 1
    /\ events = <<>>
    /\ errors = <<>>
    /\ stalls = {}
    /\ diverged = FALSE
    /\ iters = 0
    /\ tree = <<>>
    /\ given = <<>>
    /\ NotChecking

\* the closure is applied to an input
Apply ==
    /\ phase = "combinator"
    /\ Len(applied) < MaxCalls
    /\ \E i \in INPUTS :
       \E r \in {dynamic_context(combinator.context_creator, combinator.f, i)} :
          applied' = Append(applied, [i |-> i, out |-> r.out, created |-> r.created])
    /\ UNCHANGED <<parsed, phase, checkvars, combinator>>

NextContext == Apply

SpecContext == InitContext /\ [][NextContext]_vars

-----------------------------------------------------------------------------
(* C30 *)

\* C30: the closure of dynamic_context returns what f returns for Ok and for
\* Incomplete and does not call context_creator then; for an Error or a
\* Failure of f it returns an error of the same class that holds the string
\* of context_creator, the input the closure was applied to and the error of
\* f, and context_creator is called for nothing else.
C30_DynamicContext ==
    phase = "combinator" =>
        \A x \in 1..Len(applied) :
            LET done == applied[x]
                r == combinator.f[done.i]
            IN /\ r.t \in {"Ok", "Incomplete"} => done.out = r /\ done.created = <<>>
               /\ r.t \in {"Error", "Failure"} =>
                     /\ done.out.t = r.t
                     /\ done.out.e.context = combinator.context_creator
                     /\ done.out.e.input = done.i
                     /\ done.out.e.other = r.e
               /\ done.created # <<>> =>
                     /\ r.t \in {"Error", "Failure"}
                     /\ \A y \in 1..Len(done.created) :
                           done.created[y] = combinator.context_creator

\* a closure has returned a success and a Failure with the context
C30_Witness ==
    /\ phase = "combinator"
    /\ \E x, y \in 1..Len(applied) :
          /\ applied[x].out.t = "Ok"
          /\ applied[x].created = <<>>
          /\ applied[y].out.t = "Failure"
          /\ applied[y].out.e.context = combinator.context_creator
          /\ applied[y].out.e.other.context # <<>>
====
